---- MODULE Spec2Model ----
(***************************************************************************)
(* Model of the component engine of encodapy                               *)
(* (src/encodapy/components/basic_component.py, class BasicComponent):     *)
(* construction, config/static data resolution, input staging, run() and   *)
(* calibrate() of one component instance.                                  *)
(*                                                                         *)
(* Python values are encoded so that every collection is homogeneous:      *)
(*   - a datapoint value is a record [kind, n]; kind is "num", "str" or    *)
(*     "none" (Python None); n is the number (0 for the other kinds);      *)
(*   - an Optional[DataUnits] is a unit code or the string "None";         *)
(*   - an Optional[datetime] is a positive integer or 0 for None;          *)
(*   - an exception is a record [kind, a, b]: kind is the exception class  *)
(*     and a, b are the identifiers its message names.                     *)
(***************************************************************************)
EXTENDS Integers, Sequences, FiniteSets, TLC

\* Bounds of the model: numeric payloads are k * 1000 for k in 1..MaxNum,
\* timestamps are 1..MaxTs.
MaxNum == 1
MaxTs == 1
\* largest setpoint and hysteresis of the two-point controller
MaxLevel == 3
\* a thermal storage has a volume of 1 m3 plus up to MaxVolumeDigit * 0.0001 m3
MaxVolumeDigit == 4
\* number of MQTT messages the network thread receives
MaxClock == 2
\* largest number of temperature sensors whose slices of a thermal storage
\* are calculated
MaxSensors == 3
\* largest sampling time of the service loop, in steps of 0.1 s
MaxHold == 3

----------------------------------------------------------------------------
\* Values, units, datapoints, allocations, errors

NoneUnit == "None"
DataUnits == {"KWH", "WHR", "CEL"}
UnitOrNone == DataUnits \cup {NoneUnit}

Num(n) == [kind |-> "num", n |-> n]
StrVal == [kind |-> "str", n |-> 0]
NoneVal == [kind |-> "none", n |-> 0]
NumVals == {Num(k * 1000) : k \in 1..MaxNum}
IsNumeric(v) == v.kind = "num"

DataPointModel(value, unit, time) == [value |-> value, unit |-> unit, time |-> time]
NoDatapoint == DataPointModel(NoneVal, NoneUnit, 0)

IOAllocationModel(entity, attribute, default, unit) ==
    [entity |-> entity, attribute |-> attribute, default |-> default, unit |-> unit]
\* Python None where an Optional[IOAllocationModel] is expected
NoAllocation == IOAllocationModel("", "", NoneVal, NoneUnit)

NoError == [kind |-> "none", a |-> "", b |-> ""]
KeyError(entity, attribute) == [kind |-> "KeyError", a |-> entity, b |-> attribute]
ComponentValidationError(field, component) ==
    [kind |-> "ComponentValidationError", a |-> field, b |-> component]
ValueError(what) == [kind |-> "ValueError", a |-> what, b |-> ""]

InputDataAttributeModel(id, data, unit, ts) ==
    [id |-> id, data |-> data, unit |-> unit, latest_timestamp_input |-> ts]
InputDataEntityModel(id, attributes) == [id |-> id, attributes |-> attributes]

----------------------------------------------------------------------------
\* BasicComponent.get_component_input: first attribute with the allocation's
\* attribute id inside the first entity (in list order) that has the
\* allocation's entity id and holds such an attribute.

RECURSIVE FindAttribute(_, _, _)
FindAttribute(attributes, attribute_id, j) ==
    IF j > Len(attributes) THEN 0
    ELSE IF attributes[j].id = attribute_id THEN j
    ELSE FindAttribute(attributes, attribute_id, j + 1)

RECURSIVE ScanEntities(_, _, _)
ScanEntities(input_entities, input_config, i) ==
    IF i > Len(input_entities)
    THEN [ok |-> FALSE, dp |-> NoDatapoint,
          err |-> KeyError(input_config.entity, input_config.attribute)]
    ELSE LET input_data == input_entities[i]
             j == IF input_data.id = input_config.entity
                  THEN FindAttribute(input_data.attributes, input_config.attribute, 1)
                  ELSE 0
         IN IF j > 0
            THEN [ok |-> TRUE,
                  dp |-> DataPointModel(input_data.attributes[j].data,
                                        input_data.attributes[j].unit,
                                        input_data.attributes[j].latest_timestamp_input),
                  err |-> NoError]
            ELSE ScanEntities(input_entities, input_config, i + 1)

\* mutant: the scan stops at the first entity with the allocation's entity id
\* and takes its first attribute, whatever the attribute's id
get_component_input_first_attribute(input_entities, input_config) ==
    LET hits == {i \in 1..Len(input_entities) :
                    /\ input_entities[i].id = input_config.entity
                    /\ Len(input_entities[i].attributes) > 0}
    IN IF hits = {}
       THEN [ok |-> FALSE, dp |-> NoDatapoint,
             err |-> KeyError(input_config.entity, input_config.attribute)]
       ELSE LET i == CHOOSE k \in hits : \A m \in hits : k <= m
                at == input_entities[i].attributes[1]
            IN [ok |-> TRUE,
                dp |-> DataPointModel(at.data, at.unit, at.latest_timestamp_input),
                err |-> NoError]

get_component_input(input_entities, input_config) ==
    ScanEntities(input_entities, input_config, 1)

----------------------------------------------------------------------------
\* Unit conversion factor.  encodapy/utils/units.py (get_unit_adjustment_factor)
\* is not part of the sources at hand; the table follows the specification
\* (section 4.3): a multiplicative factor for a convertible pair, None for a
\* pair that is not convertible.  The factor is the fraction num/den.

NoFactor == [defined |-> FALSE, num |-> 0, den |-> 1]
Factor(num, den) == [defined |-> TRUE, num |-> num, den |-> den]
get_unit_adjustment_factor(unit_actual, unit_target) ==
    IF unit_actual = unit_target THEN Factor(1, 1)
    ELSE IF unit_actual = "KWH" /\ unit_target = "WHR" THEN Factor(1000, 1)
    ELSE IF unit_actual = "WHR" /\ unit_target = "KWH" THEN Factor(1, 1000)
    ELSE NoFactor

\* value * unit_adjustment_factor
Times(n, factor) == (n * factor.num) \div factor.den

----------------------------------------------------------------------------
\* Config-data schema (the pydantic model returned by
\* get_component_config_data_model): fields in declaration order.
\*   required: FieldInfo.is_required(); default: FieldInfo.default;
\*   unit: json_schema_extra["unit"] or None; kind: numeric or general datapoint.

ConfigField(name, required, default, unit, kind) ==
    [name |-> name, required |-> required, default |-> default,
     unit |-> unit, kind |-> kind]

ConfigDataModel(unit) ==
    [present |-> TRUE,
     fields |-> << ConfigField("a_config_value", TRUE, NoneVal, unit, "number"),
                   ConfigField("optional_config_value", FALSE, Num(1), NoneUnit, "general") >>]
\* get_component_config_data_model returned None
NoConfigDataModel == [present |-> FALSE, fields |-> << >>]

ConfigFieldNames == {"a_config_value", "optional_config_value"}

\* ConfigDataPoints: name -> IOAllocationModel | DataPointModel; a name that is
\* not a key of the map has kind "absent".
AbsentEntry == [kind |-> "absent", dp |-> NoDatapoint, alloc |-> NoAllocation]
LiteralEntry(dp) == [kind |-> "literal", dp |-> dp, alloc |-> NoAllocation]
AllocationEntry(alloc) == [kind |-> "allocation", dp |-> NoDatapoint, alloc |-> alloc]

\* Optional[list[StaticDataEntityModel]]
NoStaticData == [given |-> FALSE, entities |-> << >>]
StaticData(entities) == [given |-> TRUE, entities |-> entities]

\* ControllerComponentConfigData held in self.static_data; set is FALSE while
\* the attribute has never been assigned.
EmptyRoot == [name \in ConfigFieldNames |-> NoDatapoint]
UnsetStaticData == [set |-> FALSE, root |-> EmptyRoot]

Ok(dp) == [ok |-> TRUE, dp |-> dp, err |-> NoError]
Fail(err) == [ok |-> FALSE, dp |-> NoDatapoint, err |-> err]

\* validate_assignment of the value against the field's declared type: a
\* numeric datapoint field accepts numbers only, a general one any value.
ValidateAssignment(field, value) ==
    field.kind = "general" \/ IsNumeric(value)

\* mutant: the unit label is rewritten but the value is not multiplied
AdjustUnit_label_only(component_id, field, dp) ==
    IF field.unit # NoneUnit /\ dp.unit # NoneUnit /\ dp.unit # field.unit
    THEN IF IsNumeric(dp.value)
         THEN IF ~get_unit_adjustment_factor(dp.unit, field.unit).defined
              THEN Fail(ComponentValidationError(field.name, component_id))
              ELSE Ok(DataPointModel(dp.value, field.unit, 0))
         ELSE Fail(ComponentValidationError(field.name, component_id))
    ELSE Ok(dp)

\* set_component_config_data, unit step: a datapoint whose unit differs from the
\* unit declared by the schema is converted if it is numeric and a factor
\* exists; the converted datapoint is a new DataPointModel without time.
AdjustUnit(component_id, field, dp) ==
    IF field.unit # NoneUnit /\ dp.unit # NoneUnit /\ dp.unit # field.unit
    THEN IF IsNumeric(dp.value)
         THEN LET unit_adjustment_factor ==
                      get_unit_adjustment_factor(dp.unit, field.unit)
              IN IF ~unit_adjustment_factor.defined
                 THEN Fail(ComponentValidationError(field.name, component_id))
                 ELSE Ok(DataPointModel(
                             Num(Times(dp.value.n, unit_adjustment_factor)),
                             field.unit, 0))
         ELSE Fail(ComponentValidationError(field.name, component_id))
    ELSE Ok(dp)

\* set_component_config_data, body of the loop for one schema field
ResolveConfigField(component_id, static_data, static_config, field) ==
    LET entry == static_config.root[field.name]
    IN IF entry.kind = "absent" /\ field.required
       THEN Fail(ComponentValidationError(field.name, component_id))
       ELSE IF entry.kind = "absent"
       THEN Ok(DataPointModel(field.default, field.unit, 0))
       ELSE LET got == IF entry.kind = "literal" THEN Ok(entry.dp)
                       ELSE IF ~static_data.given
                       THEN Fail(ComponentValidationError(field.name, component_id))
                       ELSE get_component_input(static_data.entities, entry.alloc)
            IN IF ~got.ok THEN got
               ELSE LET adjusted == AdjustUnit(component_id, field, got.dp)
                    IN IF ~adjusted.ok THEN adjusted
                       ELSE IF ~ValidateAssignment(field, adjusted.dp.value)
                       THEN Fail(ComponentValidationError(field.name, component_id))
                       ELSE adjusted

\* the loop over config_model.model_fields: the first failing field raises
RECURSIVE ResolveConfigFields(_, _, _, _, _, _)
ResolveConfigFields(component_id, static_data, static_config, fields, k, acc) ==
    IF k > Len(fields) THEN [ok |-> TRUE, root |-> acc, err |-> NoError]
    ELSE LET r == ResolveConfigField(component_id, static_data, static_config, fields[k])
         IN IF ~r.ok THEN [ok |-> FALSE, root |-> acc, err |-> r.err]
            ELSE ResolveConfigFields(component_id, static_data, static_config, fields,
                                     k + 1, [acc EXCEPT ![fields[k].name] = r.dp])

HasAllocation(static_config) ==
    \E name \in ConfigFieldNames : static_config.root[name].kind = "allocation"

\* Result of set_component_config_data:
\*   status "skipped": returned without assigning self.static_data,
\*          "stored":  self.static_data assigned to root,
\*          "raised":  err propagates, self.static_data not assigned;
\*   config: the component's config map after the call.
ConfigResult(status, root, err, config) ==
    [status |-> status, root |-> root, err |-> err, config |-> config]

\* mutant: a converted literal is written back into the configuration entry
set_component_config_data_in_place(component_id, config_model, static_data, static_config) ==
    IF ~static_config.present \/ ~config_model.present
       \/ (~static_data.given /\ HasAllocation(static_config))
    THEN ConfigResult("skipped", EmptyRoot, NoError, static_config)
    ELSE LET r == ResolveConfigFields(component_id, static_data, static_config,
                                      config_model.fields, 1, EmptyRoot)
         IN IF r.ok
            THEN ConfigResult("stored", r.root, NoError,
                     [static_config EXCEPT !.root =
                         [name \in ConfigFieldNames |->
                             IF static_config.root[name].kind = "literal"
                             THEN LiteralEntry(r.root[name])
                             ELSE static_config.root[name]]])
            ELSE ConfigResult("raised", EmptyRoot, r.err, static_config)

set_component_config_data(component_id, config_model, static_data, static_config) ==
    IF ~static_config.present
    THEN ConfigResult("skipped", EmptyRoot, NoError, static_config)
    ELSE IF ~static_data.given /\ HasAllocation(static_config)
    THEN ConfigResult("skipped", EmptyRoot, NoError, static_config)
    ELSE IF ~config_model.present
    THEN ConfigResult("skipped", EmptyRoot, NoError, static_config)
    ELSE LET r == ResolveConfigFields(component_id, static_data, static_config,
                                      config_model.fields, 1, EmptyRoot)
         IN IF r.ok
            THEN ConfigResult("stored", r.root, NoError, static_config)
            ELSE ConfigResult("raised", EmptyRoot, r.err, static_config)

----------------------------------------------------------------------------
\* Input and Output schema of the component type and _prepare_i_o_config

\* extra_default, extra_unit: json_schema_extra["default"], ["unit"] (None if
\* the key is missing)
InputField(name, required, extra_default, extra_unit) ==
    [name |-> name, required |-> required,
     extra_default |-> extra_default, extra_unit |-> extra_unit]
InputDataSchema ==
    << InputField("current_value", TRUE, NoneVal, NoneUnit),
       InputField("optional_input", FALSE, StrVal, "CEL") >>
InputNames == {"current_value", "optional_input"}

\* calculation: json_schema_extra["calculation"], "None" if there is none
OutputField(name, required, calculation) ==
    [name |-> name, required |-> required, calculation |-> calculation]
OutputDataSchema ==
    << OutputField("control_signal", TRUE, "get_control_signal"),
       OutputField("b_result", FALSE, "calculate_b_result"),
       OutputField("a_result", TRUE, "None") >>
OutputNames == {"control_signal", "b_result", "a_result"}
CalculatedNames == {"control_signal", "b_result"}

ValidationError(model, component) ==
    [kind |-> "ValidationError", a |-> model, b |-> component]

\* InputModel.check_default_values: the schema's default and unit fill the
\* allocation's default and unit where the configuration left them None
check_default_values(field, value) ==
    IF value = NoAllocation THEN value
    ELSE [value EXCEPT
            !.default = IF value.default = NoneVal THEN field.extra_default ELSE @,
            !.unit = IF value.unit = NoneUnit THEN field.extra_unit ELSE @]

\* a key that is missing in the allocation map is NoAllocation
MissingRequired(schema, allocations) ==
    \E k \in 1..Len(schema) :
        schema[k].required /\ allocations[schema[k].name] = NoAllocation

NoIOModel == [set |-> FALSE,
              input |-> [name \in InputNames |-> NoAllocation],
              output |-> [name \in OutputNames |-> NoAllocation]]

prepare_i_o_config(config) ==
    IF MissingRequired(InputDataSchema, config.inputs)
    THEN [ok |-> FALSE, io_model |-> NoIOModel, err |-> ValidationError("input", config.id)]
    ELSE IF MissingRequired(OutputDataSchema, config.outputs)
    THEN [ok |-> FALSE, io_model |-> NoIOModel, err |-> ValidationError("output", config.id)]
    ELSE [ok |-> TRUE,
          io_model |-> [set |-> TRUE,
                        input |-> [name \in InputNames |->
                            LET k == CHOOSE i \in 1..Len(InputDataSchema) :
                                         InputDataSchema[i].name = name
                            IN check_default_values(InputDataSchema[k], config.inputs[name])],
                        output |-> config.outputs],
          err |-> NoError]

----------------------------------------------------------------------------
\* set_input_values

InputDataModel(input_entities, static_entities) ==
    [input_entities |-> input_entities, static_entities |-> static_entities]

EmptyInputs == [name \in InputNames |-> NoDatapoint]
UnsetInputValues == [set |-> FALSE, root |-> EmptyInputs]

\* set_input_values, body of the loop for one field of io_model.input
StageInput(input_datapoints, datapoint_config) ==
    IF datapoint_config = NoAllocation
    THEN Fail(ValidationError("IOAllocationModel", ""))
    ELSE LET input_datapoint == get_component_input(input_datapoints, datapoint_config)
         IN IF ~input_datapoint.ok THEN input_datapoint
            ELSE Ok(DataPointModel(
                     IF input_datapoint.dp.value = NoneVal
                     THEN datapoint_config.default ELSE input_datapoint.dp.value,
                     IF input_datapoint.dp.unit = NoneUnit
                     THEN datapoint_config.unit ELSE input_datapoint.dp.unit,
                     input_datapoint.dp.time))

RECURSIVE StageInputs(_, _, _, _)
StageInputs(io_input, input_datapoints, k, acc) ==
    IF k > Len(InputDataSchema) THEN [ok |-> TRUE, root |-> acc, err |-> NoError]
    ELSE LET name == InputDataSchema[k].name
             r == StageInput(input_datapoints, io_input[name])
         IN IF ~r.ok THEN [ok |-> FALSE, root |-> acc, err |-> r.err]
            ELSE StageInputs(io_input, input_datapoints, k + 1,
                             [acc EXCEPT ![name] = r.dp])

\* mutant: the static entities are searched before the cycle's input entities
set_input_values_static_first(io_model, input_data) ==
    StageInputs(io_model.input,
                input_data.static_entities \o input_data.input_entities,
                1, EmptyInputs)

\* ok: self.input_values is assigned root; otherwise err is raised and
\* self.input_values keeps its value
set_input_values(io_model, input_data) ==
    StageInputs(io_model.input,
                input_data.input_entities \o input_data.static_entities,
                1, EmptyInputs)

----------------------------------------------------------------------------
\* run

DataTransferComponentModel(entity_id, attribute_id, value, unit) ==
    [entity_id |-> entity_id, attribute_id |-> attribute_id,
     value |-> value, unit |-> unit]

\* What the calculation method bound to an output field does when it is
\* called: it returns (value, unit) or it raises (get_control_signal raises
\* ValueError).
Returns(value, unit) == [raises |-> FALSE, value |-> value, unit |-> unit]
Raises == [raises |-> TRUE, value |-> NoneVal, unit |-> NoneUnit]

RunResult(raised, err, components, invoked, staged) ==
    [raised |-> raised, err |-> err, components |-> components,
     invoked |-> invoked, staged |-> staged]

\* the loop over output.model_fields; invoked lists the fields whose
\* calculation method has been called
RECURSIVE ComputeOutputs(_, _, _, _, _, _)
ComputeOutputs(io_output, calculation, k, components, invoked, staged) ==
    IF k > Len(OutputDataSchema)
    THEN RunResult(FALSE, NoError, components, invoked, staged)
    ELSE LET field == OutputDataSchema[k]
             output_datapoint_config == io_output[field.name]
         IN IF field.calculation = "None" \/ output_datapoint_config = NoAllocation
            THEN ComputeOutputs(io_output, calculation, k + 1, components, invoked, staged)
            ELSE LET result == calculation[field.name]
                 IN IF result.raises
                    THEN RunResult(TRUE, ValueError(field.calculation), << >>,
                                   Append(invoked, field.name), staged)
                    ELSE ComputeOutputs(io_output, calculation, k + 1,
                             Append(components,
                                    DataTransferComponentModel(
                                        output_datapoint_config.entity,
                                        output_datapoint_config.attribute,
                                        result.value, result.unit)),
                             Append(invoked, field.name), staged)

\* mutant: an exception of a calculation method is caught inside the loop and
\* the instructions collected so far are returned
RECURSIVE ComputeOutputsPartial(_, _, _, _, _, _)
ComputeOutputsPartial(io_output, calculation, k, components, invoked, staged) ==
    IF k > Len(OutputDataSchema)
    THEN RunResult(FALSE, NoError, components, invoked, staged)
    ELSE LET field == OutputDataSchema[k]
             output_datapoint_config == io_output[field.name]
         IN IF field.calculation = "None" \/ output_datapoint_config = NoAllocation
            THEN ComputeOutputsPartial(io_output, calculation, k + 1,
                                       components, invoked, staged)
            ELSE LET result == calculation[field.name]
                 IN IF result.raises
                    THEN ComputeOutputsPartial(io_output, calculation, k + 1,
                             components, Append(invoked, field.name), staged)
                    ELSE ComputeOutputsPartial(io_output, calculation, k + 1,
                             Append(components,
                                    DataTransferComponentModel(
                                        output_datapoint_config.entity,
                                        output_datapoint_config.attribute,
                                        result.value, result.unit)),
                             Append(invoked, field.name), staged)

run_partial(io_model, data, calculation) ==
    IF ~io_model.set
    THEN RunResult(FALSE, NoError, << >>, << >>, [ok |-> FALSE, root |-> EmptyInputs, err |-> NoError])
    ELSE LET staged == set_input_values(io_model, data)
         IN IF ~staged.ok
            THEN RunResult(FALSE, NoError, << >>, << >>, staged)
            ELSE ComputeOutputsPartial(io_model.output, calculation, 1, << >>, << >>, staged)

\* mutant: an output field without calculation binding is reported with a
\* null value
RECURSIVE ComputeOutputsNull(_, _, _, _, _, _)
ComputeOutputsNull(io_output, calculation, k, components, invoked, staged) ==
    IF k > Len(OutputDataSchema)
    THEN RunResult(FALSE, NoError, components, invoked, staged)
    ELSE LET field == OutputDataSchema[k]
             output_datapoint_config == io_output[field.name]
         IN IF output_datapoint_config = NoAllocation
            THEN ComputeOutputsNull(io_output, calculation, k + 1,
                                    components, invoked, staged)
            ELSE IF field.calculation = "None"
            THEN ComputeOutputsNull(io_output, calculation, k + 1,
                     Append(components,
                            DataTransferComponentModel(
                                output_datapoint_config.entity,
                                output_datapoint_config.attribute,
                                NoneVal, NoneUnit)),
                     invoked, staged)
            ELSE LET result == calculation[field.name]
                 IN IF result.raises
                    THEN RunResult(TRUE, ValueError(field.calculation), << >>,
                                   Append(invoked, field.name), staged)
                    ELSE ComputeOutputsNull(io_output, calculation, k + 1,
                             Append(components,
                                    DataTransferComponentModel(
                                        output_datapoint_config.entity,
                                        output_datapoint_config.attribute,
                                        result.value, result.unit)),
                             Append(invoked, field.name), staged)

run_null_default(io_model, data, calculation) ==
    IF ~io_model.set
    THEN RunResult(FALSE, NoError, << >>, << >>, [ok |-> FALSE, root |-> EmptyInputs, err |-> NoError])
    ELSE LET staged == set_input_values(io_model, data)
         IN IF ~staged.ok
            THEN RunResult(FALSE, NoError, << >>, << >>, staged)
            ELSE IF MissingRequired(OutputDataSchema, io_model.output)
            THEN RunResult(FALSE, NoError, << >>, << >>, staged)
            ELSE ComputeOutputsNull(io_model.output, calculation, 1, << >>, << >>, staged)

\* run(data): raised TRUE when an exception leaves run(); otherwise
\* components is the returned list.  staged is the outcome of
\* set_input_values (KeyError and ValueError, which includes pydantic's
\* ValidationError, are caught).  The output model validation re-validates
\* the instance held in io_model.output and passes.
run(io_model, data, calculation) ==
    IF ~io_model.set
    THEN RunResult(FALSE, NoError, << >>, << >>, [ok |-> FALSE, root |-> EmptyInputs, err |-> NoError])
    ELSE LET staged == set_input_values(io_model, data)
         IN IF ~staged.ok
            THEN RunResult(FALSE, NoError, << >>, << >>, staged)
            ELSE IF MissingRequired(OutputDataSchema, io_model.output)
            THEN RunResult(FALSE, NoError, << >>, << >>, staged)
            ELSE ComputeOutputs(io_model.output, calculation, 1, << >>, << >>, staged)

----------------------------------------------------------------------------
\* calibrate

CalibrateResult(raised, err, calls, config_result) ==
    [raised |-> raised, err |-> err, calls |-> calls, config_result |-> config_result]

\* mutant: the error of the config resolution is logged and swallowed
calibrate_swallow(component_id, config_model, static_data, static_config) ==
    IF ~static_data.given
    THEN CalibrateResult(FALSE, NoError, << >>,
                         ConfigResult("skipped", EmptyRoot, NoError, static_config))
    ELSE LET r == set_component_config_data(component_id, config_model,
                                            static_data, static_config)
         IN IF r.status = "raised"
            THEN CalibrateResult(FALSE, NoError, <<"set_component_config_data">>, r)
            ELSE CalibrateResult(FALSE, NoError,
                     <<"set_component_config_data", "prepare_component">>, r)

\* calibrate(static_data): calls lists the methods invoked, in order
calibrate(component_id, config_model, static_data, static_config) ==
    IF ~static_data.given
    THEN CalibrateResult(FALSE, NoError, << >>,
                         ConfigResult("skipped", EmptyRoot, NoError, static_config))
    ELSE LET r == set_component_config_data(component_id, config_model,
                                            static_data, static_config)
         IN IF r.status = "raised"
            THEN CalibrateResult(TRUE, r.err, <<"set_component_config_data">>, r)
            ELSE CalibrateResult(FALSE, NoError,
                     <<"set_component_config_data", "prepare_component">>, r)

----------------------------------------------------------------------------
\* BasicComponent.__init__

InitResult(ok, err, config_result, io_model, calls) ==
    [ok |-> ok, err |-> err, config_result |-> config_result,
     io_model |-> io_model, calls |-> calls]

\* ok FALSE: err leaves the constructor and no component exists
BasicComponent_init(config, config_model, static_data) ==
    LET r == set_component_config_data(config.id, config_model, static_data, config.config)
    IN IF r.status = "raised"
       THEN InitResult(FALSE, r.err, r, NoIOModel, <<"set_component_config_data">>)
       ELSE LET io == prepare_i_o_config(config)
            IN IF ~io.ok
               THEN InitResult(FALSE, io.err, r, NoIOModel,
                        <<"set_component_config_data", "_prepare_i_o_config">>)
               ELSE InitResult(TRUE, NoError, r, io.io_model,
                        <<"set_component_config_data", "_prepare_i_o_config",
                          "prepare_component">>)

----------------------------------------------------------------------------
\* TwoPointController.  The class is written for the component interface in
\* which get_component_input and get_component_static_data return the pair
\* (value, unit) and the static data is keyed by the ids of the component's
\* staticdata map.

\* a value that is no str, int, float or bool (a dict, a list, a DataFrame)
ListVal == [kind |-> "list", n |-> 0]

ControllerComponentStaticDataAttribute(value, unit) ==
    [present |-> TRUE, value |-> value, unit |-> unit]
\* the id is not a key of the static data
NoStaticAttribute == [present |-> FALSE, value |-> NoneVal, unit |-> NoneUnit]
StaticDataIds == {"hysteresis", "setpoint_value", "command_enabled", "command_disabled"}

TypeError(what) == [kind |-> "TypeError", a |-> what, b |-> ""]
RuntimeError(what) == [kind |-> "RuntimeError", a |-> what, b |-> ""]

\* found FALSE: the call returned None
StaticDataResult(raised, found, value, unit, err) ==
    [raised |-> raised, found |-> found, value |-> value, unit |-> unit, err |-> err]

get_component_static_data(root, component_id, unit) ==
    IF ~root[component_id].present
    THEN StaticDataResult(FALSE, FALSE, NoneVal, NoneUnit, NoError)
    ELSE LET static_data_value == root[component_id].value
             static_data_unit == root[component_id].unit
         IN IF unit # NoneUnit /\ static_data_unit # NoneUnit /\ static_data_unit # unit
            THEN StaticDataResult(TRUE, FALSE, NoneVal, NoneUnit, RuntimeError(component_id))
            ELSE StaticDataResult(FALSE, TRUE, static_data_value, static_data_unit, NoError)

TwoPointControllerValues(current_value, current_unit, latest_control_signal) ==
    [set |-> TRUE, current_value |-> current_value, current_unit |-> current_unit,
     latest_control_signal |-> latest_control_signal]
NoControllerValues ==
    [set |-> FALSE, current_value |-> 0, current_unit |-> NoneUnit,
     latest_control_signal |-> NoneVal]

\* self of a TwoPointController
ControllerSelf(root, controller_values, unit_hysteresis) ==
    [static_data |-> root, controller_values |-> controller_values,
     unit_hysteresis |-> unit_hysteresis]

PrepareResult(raised, err, unit_hysteresis) ==
    [raised |-> raised, err |-> err, unit_hysteresis |-> unit_hysteresis]

\* unpacking the None of a missing id raises TypeError
prepare_component(self) ==
    LET r == get_component_static_data(self.static_data, "hysteresis", NoneUnit)
    IN IF ~r.found
       THEN PrepareResult(TRUE, TypeError("hysteresis"), self.unit_hysteresis)
       ELSE PrepareResult(FALSE, NoError,
                IF r.unit # NoneUnit THEN r.unit ELSE self.unit_hysteresis)

ControllerInputNames == << "current_value", "latest_control_signal" >>
ControllerInputs ==
    [name \in {"current_value", "latest_control_signal"} |->
        IF name = "current_value" THEN IOAllocationModel("e1", "a1", NoneVal, NoneUnit)
        ELSE IOAllocationModel("e1", "a2", NoneVal, NoneUnit)]

\* the loop over io_model.input: status "ok" with the sensor values and
\* units, "return" for the early return on a value that is no scalar,
\* "raised" for the KeyError of the lookup and the ValueError of float()
SensorResult(status, err, values, units) ==
    [status |-> status, err |-> err, values |-> values, units |-> units]
RECURSIVE ReadSensors(_, _, _, _)
ReadSensors(input_entities, k, values, units) ==
    IF k > Len(ControllerInputNames) THEN SensorResult("ok", NoError, values, units)
    ELSE LET key == ControllerInputNames[k]
             r == get_component_input(input_entities, ControllerInputs[key])
         IN IF ~r.ok THEN SensorResult("raised", r.err, values, units)
            ELSE IF r.dp.value = ListVal
            THEN SensorResult("return", NoError, values, units)
            ELSE IF r.dp.value = StrVal
            THEN SensorResult("raised", ValueError("float"), values, units)
            ELSE ReadSensors(input_entities, k + 1,
                             [values EXCEPT ![key] = r.dp.value],
                             [units EXCEPT ![key] = r.dp.unit])

\* assigned: self.controller_values was assigned; otherwise it keeps its value
ControllerInputResult(raised, err, assigned, controller_values) ==
    [raised |-> raised, err |-> err, assigned |-> assigned,
     controller_values |-> controller_values]

TwoPointController_set_input_values(self, input_entities) ==
    LET sensors == ReadSensors(input_entities, 1,
                       [key \in DOMAIN ControllerInputs |-> NoneVal],
                       [key \in DOMAIN ControllerInputs |-> NoneUnit])
        latest_control_signal_raw == sensors.values["latest_control_signal"]
        command_disabled ==
            get_component_static_data(self.static_data, "command_disabled", NoneUnit)
    IN IF sensors.status = "raised"
       THEN ControllerInputResult(TRUE, sensors.err, FALSE, self.controller_values)
       ELSE IF sensors.status = "return"
       THEN ControllerInputResult(FALSE, NoError, FALSE, self.controller_values)
       ELSE IF latest_control_signal_raw = NoneVal /\ ~command_disabled.found
       THEN ControllerInputResult(TRUE, TypeError("command_disabled"), FALSE,
                                  self.controller_values)
       ELSE IF latest_control_signal_raw = NoneVal
               /\ command_disabled.value.kind \notin {"num", "str"}
       THEN ControllerInputResult(TRUE, ValueError("command_disabled"), FALSE,
                                  self.controller_values)
       ELSE IF sensors.values["current_value"].kind # "num"
       THEN \* ValidationError of TwoPointControllerValues: logged, return
            ControllerInputResult(FALSE, NoError, FALSE, self.controller_values)
       ELSE ControllerInputResult(FALSE, NoError, TRUE,
                TwoPointControllerValues(
                    sensors.values["current_value"].n,
                    sensors.units["current_value"],
                    IF latest_control_signal_raw = NoneVal
                    THEN command_disabled.value ELSE latest_control_signal_raw))

\* the comparison of get_control_signal; the numbers are the floats of the
\* source
ControlLaw(current_value, latest_control_signal, setpoint, hysteresis, command_enabled, command_disabled) ==
    LET minimal_value == setpoint - hysteresis
    IN IF current_value < minimal_value THEN command_enabled
       ELSE IF current_value > setpoint THEN command_disabled
       ELSE IF latest_control_signal = command_enabled /\ current_value > minimal_value
       THEN command_enabled
       ELSE command_disabled

\* evaluated: the comparison was made, on self.controller_values
ControlSignal(raised, err, evaluated, value, unit) ==
    [raised |-> raised, err |-> err, evaluated |-> evaluated,
     value |-> value, unit |-> unit]
NoControlSignal == ControlSignal(FALSE, NoError, FALSE, NoneVal, NoneUnit)

get_control_signal(self) ==
    IF ~self.controller_values.set
    THEN ControlSignal(TRUE, ValueError("controller_values"), FALSE, NoneVal, NoneUnit)
    ELSE IF self.unit_hysteresis = NoneUnit
    THEN ControlSignal(TRUE, ValueError("unit_hysteresis"), FALSE, NoneVal, NoneUnit)
    ELSE LET setpoint == get_component_static_data(self.static_data, "setpoint_value",
                             self.controller_values.current_unit)
             hysteresis == get_component_static_data(self.static_data, "hysteresis",
                               self.unit_hysteresis)
             command_enabled ==
                 get_component_static_data(self.static_data, "command_enabled", NoneUnit)
             command_disabled ==
                 get_component_static_data(self.static_data, "command_disabled", NoneUnit)
         IN IF setpoint.raised
            THEN ControlSignal(TRUE, setpoint.err, FALSE, NoneVal, NoneUnit)
            ELSE IF ~setpoint.found
            THEN ControlSignal(TRUE, TypeError("setpoint_value"), FALSE, NoneVal, NoneUnit)
            ELSE IF hysteresis.raised
            THEN ControlSignal(TRUE, hysteresis.err, FALSE, NoneVal, NoneUnit)
            ELSE IF ~hysteresis.found
            THEN ControlSignal(TRUE, TypeError("hysteresis"), FALSE, NoneVal, NoneUnit)
            ELSE IF ~command_enabled.found
            THEN ControlSignal(TRUE, TypeError("command_enabled"), FALSE, NoneVal, NoneUnit)
            ELSE IF ~command_disabled.found
            THEN ControlSignal(TRUE, TypeError("command_disabled"), FALSE, NoneVal, NoneUnit)
            ELSE IF NoneVal \in {setpoint.value, hysteresis.value,
                                  command_enabled.value, command_disabled.value}
            THEN ControlSignal(TRUE, ValueError("static data"), FALSE, NoneVal, NoneUnit)
            ELSE IF setpoint.value.kind # "num" \/ hysteresis.value.kind # "num"
            THEN \* a list fails the isinstance test, a text fails in float()
                 ControlSignal(TRUE, ValueError("number"), FALSE, NoneVal, NoneUnit)
            ELSE LET command == ControlLaw(self.controller_values.current_value,
                                           self.controller_values.latest_control_signal,
                                           setpoint.value.n, hysteresis.value.n,
                                           command_enabled.value, command_disabled.value)
                 IN ControlSignal(FALSE, NoError, TRUE, command,
                        IF command = command_enabled.value
                        THEN command_enabled.unit ELSE command_disabled.unit)

----------------------------------------------------------------------------
\* component_loader.  A component type without "." is a sequence of the
\* parts that "_" separates; check_component_type returns it with no module
\* path.

\* str.capitalize() of a part
Capitalize(part) ==
    CASE part = "two" -> "Two"
      [] part = "point" -> "Point"
      [] part = "controller" -> "Controller"
      [] part = "new" -> "New"
      [] part = "component" -> "Component"
      [] part = "thermal" -> "Thermal"
      [] part = "storage" -> "Storage"

\* the component type as the string of the configuration
RECURSIVE TypeString(_)
TypeString(parts) ==
    IF Len(parts) = 1 THEN parts[1]
    ELSE parts[1] \o "_" \o TypeString(Tail(parts))

\* "".join(part.capitalize() for part in component_type.split("_"))
RECURSIVE JoinCapitalized(_)
JoinCapitalized(parts) ==
    IF parts = << >> THEN ""
    ELSE Capitalize(parts[1]) \o JoinCapitalized(Tail(parts))

ModelTypes == {"component", "component_config"}

\* importable modules and the classes they define; base is the class a
\* class extends
Class(module, name, base) == [module |-> module, name |-> name, base |-> base]
NoClass == Class("", "", "")
ModuleRegistry(modules, classes) == [modules |-> modules, classes |-> classes]

AttributeError(name, module) == [kind |-> "AttributeError", a |-> name, b |-> module]
ModuleNotFoundError(module) == [kind |-> "ModuleNotFoundError", a |-> module, b |-> ""]

\* kind "class": class_model is returned; "none": None is returned;
\* "raised": err is raised
LoadResult(kind, class_model, err, model_name, module_path) ==
    [kind |-> kind, class_model |-> class_model, err |-> err,
     model_name |-> model_name, module_path |-> module_path]

get_component_model(registry, component_type, model_type, model_subname, none_allowed) ==
    LET module_base_path == "encodapy.components." \o TypeString(component_type)
                                \o "." \o TypeString(component_type)
        module_path == IF model_type = "component" THEN module_base_path
                       ELSE module_base_path \o "_config"
        model_name == JoinCapitalized(component_type) \o model_subname
        found == {c \in registry.classes : c.module = module_path /\ c.name = model_name}
    IN IF model_type \notin ModelTypes
       THEN LoadResult("raised", NoClass, ValueError("model type"), "", "")
       ELSE IF module_path \notin registry.modules
       THEN LoadResult("raised", NoClass, ModuleNotFoundError(module_path),
                       model_name, module_path)
       ELSE IF found # {}
       THEN LoadResult("class", CHOOSE c \in found : TRUE, NoError, model_name, module_path)
       ELSE IF none_allowed
       THEN LoadResult("none", NoClass, NoError, model_name, module_path)
       ELSE LoadResult("raised", NoClass, AttributeError(model_name, module_path),
                       model_name, module_path)

\* issubclass(class, base)
IsSubclass(class, base) ==
    \/ class.base = base
    \/ base = "BaseModel" /\ class.base \in {"InputModel", "OutputModel"}

get_component_class_model(registry, component_type) ==
    LET component_class == get_component_model(registry, component_type, "component",
                                               "", FALSE)
    IN IF component_class.kind = "raised" THEN component_class
       ELSE IF component_class.kind = "none"
       THEN [component_class EXCEPT !.kind = "raised",
                                    !.err = KeyError(TypeString(component_type), "")]
       ELSE IF IsSubclass(component_class.class_model, "BasicComponent")
       THEN component_class
       ELSE [component_class EXCEPT !.kind = "raised", !.class_model = NoClass,
                                    !.err = TypeError(component_class.model_name)]

get_component_io_model(registry, component_type, model_subname) ==
    LET component_config_model == get_component_model(registry, component_type,
                                      "component_config", model_subname, FALSE)
    IN IF component_config_model.kind = "raised" THEN component_config_model
       ELSE IF component_config_model.kind = "none"
       THEN [component_config_model EXCEPT
                !.kind = "raised", !.err = KeyError(TypeString(component_type), "")]
       ELSE IF IsSubclass(component_config_model.class_model, "BaseModel")
       THEN component_config_model
       ELSE [component_config_model EXCEPT
                !.kind = "raised", !.class_model = NoClass,
                !.err = TypeError(component_config_model.model_name)]

get_component_static_data_model(registry, component_type, model_subname) ==
    LET component_config_model == get_component_model(registry, component_type,
                                      "component_config", model_subname, TRUE)
    IN IF component_config_model.kind \in {"raised", "none"} THEN component_config_model
       ELSE IF IsSubclass(component_config_model.class_model, "Enum")
       THEN component_config_model
       ELSE [component_config_model EXCEPT
                !.kind = "raised", !.class_model = NoClass,
                !.err = TypeError(component_config_model.model_name)]

----------------------------------------------------------------------------
\* ThermalStorage with one temperature sensor.  Volumes are counted in
\* 0.0001 m3, temperatures in 0.5 K, the state of charge in 0.01 percent and
\* energies in 0.01 Wh.

\* round() of the fraction num / den (den > 0) to an integer, ties to even
RoundHalfEven(num, den) ==
    LET q == num \div den
        r == num % den
    IN IF 2 * r < den THEN q
       ELSE IF 2 * r > den THEN q + 1
       ELSE IF q % 2 = 0 THEN q ELSE q + 1

\* round(a * b / c) for 0 <= a, 0 < c, without a product above 2^31
MulDivRound(a, b, c) ==
    a * (b \div c) + RoundHalfEven(a * (b % c), c)

TemperatureLimits(minimal_temperature, maximal_temperature) ==
    [minimal_temperature |-> 2 * minimal_temperature,
     maximal_temperature |-> 2 * maximal_temperature]

\* the upper end of the slice of the sensor at index, in 0.5 percent of the
\* height: 100 for the last sensor, else the middle between its height and
\* the next sensor's
NewHeight(sensor_heights, index) ==
    IF index = Len(sensor_heights) THEN 2 * 100
    ELSE sensor_heights[index] + sensor_heights[index + 1]

\* mutant: the last slice ends at the height of its sensor
calculate_volume_per_sensor_to_sensor(sensor_heights, volume) ==
    [index \in 1..Len(sensor_heights) |->
        ((IF index = Len(sensor_heights) THEN 2 * sensor_heights[index]
          ELSE NewHeight(sensor_heights, index))
         - (IF index = 1 THEN 0 ELSE NewHeight(sensor_heights, index - 1))) * volume]

\* the volume per sensor, in 1/200 of 0.0001 m3; sensor_heights are the
\* heights of the configured sensors in percent
calculate_volume_per_sensor(sensor_heights, volume) ==
    [index \in 1..Len(sensor_heights) |->
        (NewHeight(sensor_heights, index)
         - (IF index = 1 THEN 0 ELSE NewHeight(sensor_heights, index - 1))) * volume]

\* round(self.sensor_volumes[sensor], 3), in 0.0001 m3
get_sensor_volume(sensor_volume) == 10 * RoundHalfEven(sensor_volume, 2000)

\* set_temperature_values: the TemperatureSensorValues built from the values
\* by sensor name; sensor_names[i] is "None" for a sensor without a name and
\* -1 is the value None
set_temperature_values(sensor_names, temperature_values) ==
    [i \in 1..5 |->
        IF i \in {1, 2, 3} THEN temperature_values[sensor_names[1]]
        ELSE IF sensor_names[i] # "None" THEN temperature_values[sensor_names[i]]
        ELSE -1]

\* state_of_charge is a value in 0.01 percent; the branch below the
\* reference value returns the fraction (T - min) / (max - min)
check_temperatur_of_highest_sensor(state_of_charge, temperature, temperature_limits) ==
    LET span == temperature_limits.maximal_temperature
                    - temperature_limits.minimal_temperature
    IN IF temperature < temperature_limits.minimal_temperature THEN 0
       ELSE IF 10 * temperature < 10 * temperature_limits.minimal_temperature + span
       THEN RoundHalfEven(100 * (temperature - temperature_limits.minimal_temperature),
                          span)
       ELSE state_of_charge

\* calculate_state_of_charge({sensor: temperature}), in 0.01 percent
calculate_state_of_charge(volume, temperature_limits, temperature) ==
    LET sensor_volume == get_sensor_volume(calculate_volume_per_sensor(<< 0 >>, volume)[1])
        span == temperature_limits.maximal_temperature
                    - temperature_limits.minimal_temperature
        rise == temperature - temperature_limits.minimal_temperature
        \* (rise / span * sensor_volume) / volume * 100, clipped at 0
        state_of_charge == IF rise <= 0 THEN 0
                           ELSE MulDivRound(rise, sensor_volume * 10000, span * volume)
    IN check_temperatur_of_highest_sensor(state_of_charge, temperature, temperature_limits)

\* get_nominal_energy_content with water (rho = 997, cp = 4.19), in 0.01 Wh:
\* span [0.5 K] * volume [0.001 m3] * 997 * 4.19 / 3.6
get_nominal_energy_content(volume, temperature_limits) ==
    LET litres == get_sensor_volume(calculate_volume_per_sensor(<< 0 >>, volume)[1]) \div 10
        span == temperature_limits.maximal_temperature
                    - temperature_limits.minimal_temperature
    IN MulDivRound(span * litres, 997 * 419, 7200)

\* get_energy_content(state_of_charge), in 0.01 Wh
get_energy_content(state_of_charge, nominal_energy_content) ==
    MulDivRound(state_of_charge, nominal_energy_content, 10000)

----------------------------------------------------------------------------
\* MqttConnection.  A topic is the sequence of its parts (joined by "/" in the
\* source).  A payload is Python's None ("None"), a Python number n
\* ("float"), or a text: "" ("empty"), the text of the number n ("number"),
\* of a JSON object ("object", fields gives the value of each key, -1 for a
\* key the object does not have), of null ("null"), a number followed by a
\* unit ("words") or another text ("junk").

PayloadKeys == {"a1", "a2", "value"}
NoFields == [key \in PayloadKeys |-> -1]
MqttPayload(kind, n, fields) == [kind |-> kind, n |-> n, fields |-> fields]
NonePayload == MqttPayload("None", 0, NoFields)

\* "/".join of the parts that are neither None nor ""
assemble_topic_parts(parts) == SelectSeq(parts, LAMBDA part : part # "")

\* topic.split("/")[-1]
Subtopic(topic) == topic[Len(topic)]

\* an entry of mqtt_message_store; attribute_id "None" and timestamp -1 are
\* Python's None
StoreItem(entity_id, attribute_id, payload, timestamp) ==
    [entity_id |-> entity_id, attribute_id |-> attribute_id,
     payload |-> payload, timestamp |-> timestamp]

\* a value handed to publish: kind is its Python type
PyValue(kind, n) == [kind |-> kind, n |-> n]
\* what the MQTT client is given: None ("None"), the JSON text of a value
\* ("json") or str(value) ("str")
Prepared(kind, of) == [kind |-> kind, of |-> of]

prepare_payload_for_publish(payload_argument) ==
    LET payload == PyValue("None", 0)
    IN IF payload.kind \in {"dict", "list"} THEN Prepared("json", payload)
       ELSE IF payload.kind = "DataFrame" THEN Prepared("json", payload)
       ELSE IF payload.kind \in {"str", "float", "int", "bool"}
       THEN Prepared("str", payload)
       ELSE Prepared("None", payload)

\* publish: the message the client is asked to send
publish(topic, payload) ==
    [topic |-> topic, payload |-> prepare_payload_for_publish(payload)]

ExtractResult(raised, err, value) == [raised |-> raised, err |-> err, value |-> value]

extract_payload_value(payload) ==
    CASE payload.kind \in {"None", "empty"} -> ExtractResult(FALSE, NoError, NoneVal)
      [] payload.kind \in {"number", "words", "float"} ->
            ExtractResult(FALSE, NoError, Num(payload.n))
      [] payload.kind = "object" ->
            IF payload.fields["value"] >= 0
            THEN ExtractResult(FALSE, NoError, Num(payload.fields["value"]))
            ELSE ExtractResult(TRUE, ValueError("Invalid payload format"), NoneVal)
      [] payload.kind = "null" ->
            ExtractResult(TRUE, ValueError("Invalid payload format"), NoneVal)
      [] OTHER -> ExtractResult(TRUE, ValueError("Invalid data type"), NoneVal)

\* _extract_attributes_from_payload_and_update_store.  entity is what the
\* caller passes: is_model tells whether it is an entity model (with an
\* attribute id) or a plain str.  payload.items() raises for a payload that
\* is no dict, entity.id raises for a str.
UpdateResult(raised, err, store) == [raised |-> raised, err |-> err, store |-> store]

extract_attributes_from_payload_and_update_store(store, entity, payload, timestamp) ==
    IF payload.kind # "object"
    THEN UpdateResult(TRUE, AttributeError("items", payload.kind), store)
    ELSE IF \A key \in PayloadKeys : payload.fields[key] < 0
    THEN UpdateResult(FALSE, NoError, store)
    ELSE IF ~entity.is_model
    THEN UpdateResult(TRUE, AttributeError("id", "str"), store)
    ELSE UpdateResult(FALSE, NoError,
            [topic \in DOMAIN store |->
                IF /\ store[topic].entity_id = entity.id
                   /\ Subtopic(topic) \in PayloadKeys
                   /\ payload.fields[Subtopic(topic)] >= 0
                THEN [store[topic] EXCEPT
                        !.payload = MqttPayload("float", payload.fields[Subtopic(topic)],
                                                NoFields),
                        !.timestamp = timestamp]
                ELSE store[topic]])

\* json.loads of the text of a message: the parsed payload, or "junk" when
\* the text is no JSON
JsonLoads(payload) ==
    IF payload.kind \in {"number", "object", "null"} THEN payload
    ELSE MqttPayload("junk", 0, NoFields)

\* an attribute get_data_from_mqtt returns; payload is the stored payload the
\* data was extracted from
MqttInputAttribute(id, data, data_available, latest_timestamp_input, payload) ==
    [id |-> id, data |-> data, data_available |-> data_available,
     latest_timestamp_input |-> latest_timestamp_input, payload |-> payload]

\* an entity of the configuration: its id (also its id_interface) and the
\* ids of its attributes
MqttEntity(id, attributes) == [id |-> id, attributes |-> attributes]

\* prepare_mqtt_message_store for the entities of the configuration
RECURSIVE AttributeItems(_, _, _)
AttributeItems(topic_prefix, entity, index) ==
    IF index > Len(entity.attributes) THEN {}
    ELSE {<< assemble_topic_parts(<< topic_prefix, entity.id, entity.attributes[index] >>),
             StoreItem(entity.id, entity.attributes[index], NonePayload, -1) >>}
         \cup AttributeItems(topic_prefix, entity, index + 1)

prepare_mqtt_message_store(topic_prefix, entities) ==
    LET items == UNION {{<< assemble_topic_parts(<< topic_prefix, entity.id >>),
                            StoreItem(entity.id, "None", NonePayload, -1) >>}
                        \cup AttributeItems(topic_prefix, entity, 1) : entity \in entities}
    IN [topic \in {item[1] : item \in items} |->
           (CHOOSE item \in items : item[1] = topic)[2]]

----------------------------------------------------------------------------
\* Inputs of the model

EntityIds == {"e1", "e2"}
AttributeIds == {"a1", "a2"}
\* (value, unit) of a literal config entry or of a static attribute
DatapointCases ==
    {<< d, u >> : d \in NumVals, u \in UnitOrNone} \cup {<< StrVal, "KWH" >>}

ConfigMap(present, first, second) ==
    [present |-> present,
     root |-> [name \in ConfigFieldNames |->
                  IF name = "a_config_value" THEN first ELSE second]]

FirstEntries ==
    {AbsentEntry}
    \cup {LiteralEntry(DataPointModel(c[1], c[2], 0)) : c \in DatapointCases}
    \cup {AllocationEntry(IOAllocationModel(e, "a1", NoneVal, NoneUnit)) : e \in EntityIds}
SecondEntries ==
    {AbsentEntry, AllocationEntry(IOAllocationModel("e1", "a2", NoneVal, NoneUnit))}

\* config: Optional[ConfigDataPoints]; present FALSE is config = None
ConfigMaps ==
    {ConfigMap(FALSE, AbsentEntry, AbsentEntry)}
    \cup {ConfigMap(TRUE, x, y) : x \in FirstEntries, y \in SecondEntries}

ConfigModels == {NoConfigDataModel} \cup {ConfigDataModel(u) : u \in {"WHR", "KWH"}}

Inputs(current_value, optional_input) ==
    [name \in InputNames |->
        IF name = "current_value" THEN current_value ELSE optional_input]
Outputs(control_signal, b_result, a_result) ==
    [name \in OutputNames |->
        IF name = "control_signal" THEN control_signal
        ELSE IF name = "b_result" THEN b_result ELSE a_result]

Sensor == IOAllocationModel("e1", "a1", NoneVal, NoneUnit)
SensorWithDefault == IOAllocationModel("e1", "a1", Num(1000), "KWH")
Other == IOAllocationModel("e2", "a1", NoneVal, NoneUnit)
Out(attribute) == IOAllocationModel("out", attribute, NoneVal, NoneUnit)

IOConfigs ==
    { [inputs |-> Inputs(Sensor, Other),
       outputs |-> Outputs(Out("control"), Out("b"), Out("a"))],
      [inputs |-> Inputs(SensorWithDefault, Other),
       outputs |-> Outputs(Out("control"), NoAllocation, Out("a"))],
      [inputs |-> Inputs(Sensor, NoAllocation),
       outputs |-> Outputs(Out("control"), Out("b"), Out("a"))],
      [inputs |-> Inputs(NoAllocation, Other),
       outputs |-> Outputs(Out("control"), Out("b"), Out("a"))],
      [inputs |-> Inputs(Sensor, Other),
       outputs |-> Outputs(Out("control"), Out("b"), NoAllocation)] }

\* every config map with the first I/O configuration, the other I/O
\* configurations with a literal config entry and with config = None
PlainConfigMaps ==
    {ConfigMap(FALSE, AbsentEntry, AbsentEntry)}
    \cup {ConfigMap(TRUE, LiteralEntry(DataPointModel(d, "KWH", 0)), AbsentEntry) :
            d \in NumVals}
FirstIOConfig ==
    [inputs |-> Inputs(Sensor, Other),
     outputs |-> Outputs(Out("control"), Out("b"), Out("a"))]
ComponentConfigs ==
    {[id |-> "c1", inputs |-> io.inputs, outputs |-> io.outputs, config |-> c] :
        io \in {FirstIOConfig}, c \in ConfigMaps}
    \cup {[id |-> "c1", inputs |-> io.inputs, outputs |-> io.outputs, config |-> c] :
        io \in IOConfigs, c \in PlainConfigMaps}

One(entity, attribute, data, unit, ts) ==
    InputDataEntityModel(entity, << InputDataAttributeModel(attribute, data, unit, ts) >>)

\* static data handed to the constructor and to calibrate()
StaticEntityLists ==
    {<< >>}
    \cup {<< One("e1", "a1", c[1], c[2], MaxTs) >> : c \in DatapointCases}
    \cup {<< InputDataEntityModel("e1",
                << InputDataAttributeModel("a1", Num(1000), "KWH", MaxTs),
                   InputDataAttributeModel("a2", Num(1000), NoneUnit, MaxTs) >>) >>}
StaticArgs == {NoStaticData} \cup {StaticData(l) : l \in StaticEntityLists}

\* snapshots handed to run()
Reading == Num(MaxNum * 1000)
CycleData ==
    {InputDataModel(<< >>, << >>)}
    \cup {InputDataModel(<< One("e1", "a1", d, u, MaxTs), One("e2", "a1", StrVal, NoneUnit, 0) >>,
                         << >>) :
            d \in {Reading, NoneVal}, u \in {NoneUnit, "WHR"}}
    \cup {InputDataModel(<< One("e1", "a1", Reading, "CEL", MaxTs) >>,
                         << One("e1", "a1", StrVal, NoneUnit, MaxTs),
                            One("e2", "a1", NoneVal, NoneUnit, MaxTs) >>),
          InputDataModel(<< One("e1", "a1", Reading, "CEL", MaxTs) >>, << >>)}

\* behaviour of the calculation methods in one cycle
\* each method returns a pair of its own
Calculations ==
    {f \in [CalculatedNames -> {Raises, Returns(Num(1000), NoneUnit),
                                       Returns(StrVal, "CEL")}] :
        /\ f["control_signal"] # Returns(StrVal, "CEL")
        /\ f["b_result"] # Returns(Num(1000), NoneUnit)}

\* inputs of get_component_input on its own: up to two entities with up to two
\* attributes each; the payload of an attribute is fixed by its position, so
\* that any two attributes of a list differ
Payload(i, j) ==
    IF i = 1 /\ j = 1 THEN DataPointModel(Num(1000), "CEL", 1)
    ELSE IF i = 1 /\ j = 2 THEN DataPointModel(StrVal, NoneUnit, 0)
    ELSE IF i = 2 /\ j = 1 THEN DataPointModel(NoneVal, "KWH", MaxTs)
    ELSE DataPointModel(Num(MaxNum * 1000), "WHR", 0)
AttributeAt(id, i, j) ==
    InputDataAttributeModel(id, Payload(i, j).value, Payload(i, j).unit, Payload(i, j).time)
AttributeLists(i) ==
    {<< >>}
    \cup {<< AttributeAt(a, i, 1) >> : a \in AttributeIds}
    \cup {<< AttributeAt(a, i, 1), AttributeAt(b, i, 2) >> : a \in AttributeIds, b \in AttributeIds}
LookupEntities(i) ==
    {InputDataEntityModel(e, l) : e \in EntityIds, l \in AttributeLists(i)}
LookupLists ==
    {<< >>}
    \cup {<< x >> : x \in LookupEntities(1)}
    \cup {<< x, y >> : x \in LookupEntities(1), y \in LookupEntities(2)}
LookupAllocations ==
    {IOAllocationModel(e, a, NoneVal, NoneUnit) : e \in EntityIds, a \in AttributeIds}

\* the commands of the two-point controller
CommandEnabled == Num(1)
CommandDisabled == Num(0)

\* static data of a two-point controller
ControllerStatic(hysteresis, setpoint_value, command_disabled) ==
    [id \in StaticDataIds |->
        IF id = "hysteresis" THEN hysteresis
        ELSE IF id = "setpoint_value" THEN setpoint_value
        ELSE IF id = "command_enabled"
        THEN ControllerComponentStaticDataAttribute(CommandEnabled, NoneUnit)
        ELSE command_disabled]
ControllerStatics ==
    {ControllerStatic(ControllerComponentStaticDataAttribute(Num(1), hu), sp, cd) :
        hu \in {"CEL", "KWH", NoneUnit},
        sp \in {NoStaticAttribute}
               \cup {ControllerComponentStaticDataAttribute(Num(MaxLevel - 1), su) :
                        su \in {"CEL", "KWH"}},
        cd \in {ControllerComponentStaticDataAttribute(d, NoneUnit) :
                  d \in {CommandDisabled, NoneVal}}}

\* the input entities of a cycle of the controller
ControllerReadings ==
    {Num(v) : v \in 0..MaxLevel} \cup {NoneVal, ListVal, StrVal}
ControllerCycles ==
    {<< >>}
    \cup {<< InputDataEntityModel("e1",
                << InputDataAttributeModel("a1", d, u, MaxTs),
                   InputDataAttributeModel("a2", l, NoneUnit, MaxTs) >>) >> :
            d \in ControllerReadings, u \in {"CEL", NoneUnit},
            l \in {CommandEnabled, CommandDisabled, NoneVal}}

\* component types and module registries of the loader
ComponentTypes ==
    {<< "two", "point", "controller" >>, << "new", "component" >>,
     << "thermal", "storage" >>}
ComponentModule(t) ==
    "encodapy.components." \o TypeString(t) \o "." \o TypeString(t)
\* the component module of a type: missing, without the class, with a class
\* that extends BasicComponent, with a class that does not
ComponentModules(t) ==
    {ModuleRegistry({}, {}), ModuleRegistry({ComponentModule(t)}, {})}
    \cup {ModuleRegistry({ComponentModule(t)},
                          {Class(ComponentModule(t), JoinCapitalized(t), base)}) :
            base \in {"BasicComponent", "object"}}
\* the config module of a type: missing, or with schema classes named with
\* the given suffixes
ConfigClasses(t, input, output, config, static) ==
    {Class(ComponentModule(t) \o "_config", JoinCapitalized(t) \o input, "InputModel"),
     Class(ComponentModule(t) \o "_config", JoinCapitalized(t) \o output, "OutputModel"),
     Class(ComponentModule(t) \o "_config", JoinCapitalized(t) \o config, "BaseModel")}
    \cup (IF static = "" THEN {}
          ELSE {Class(ComponentModule(t) \o "_config", JoinCapitalized(t) \o static, "Enum")})
ConfigModules(t) ==
    {ModuleRegistry({}, {}),
     \* the classes of two_point_controller_config.py and new_component_config.py
     ModuleRegistry({ComponentModule(t) \o "_config"},
                    ConfigClasses(t, "InputData", "OutputData", "ConfigData", "")),
     ModuleRegistry({ComponentModule(t) \o "_config"},
                    ConfigClasses(t, "InputModel", "OutputModel", "ConfigDataModel", "")),
     ModuleRegistry({ComponentModule(t) \o "_config"},
                    ConfigClasses(t, "InputModel", "OutputModel", "ConfigDataModel",
                                  "StaticData"))}
ModuleRegistries(t) ==
    {ModuleRegistry(c.modules \cup g.modules, c.classes \cup g.classes) :
        c \in ComponentModules(t), g \in ConfigModules(t)}
\* the MQTT configuration: the input entity e1 with two attributes and the
\* output entity e2 with one; e3 is an entity the configuration does not have
TopicPrefix == ""
MqttInputs == {MqttEntity("e1", << "a1", "a2" >>)}
MqttOutputs == {MqttEntity("e2", << "a1" >>)}
MqttQueried == MqttInputs \cup {MqttEntity("e3", << "a1" >>)}
\* the messages that arrive: on an entity's topic, on attributes' topics and
\* on a topic nobody registered; the bytes of "undecodable" are no UTF-8
MessageTopics == {<< "e1" >>, << "e1", "a1" >>, << "e2", "a1" >>, << "zz" >>}
Fields(a1, a2, value) == [key \in PayloadKeys |->
                            IF key = "a1" THEN a1 ELSE IF key = "a2" THEN a2 ELSE value]
MessagePayloads ==
    {MqttPayload("empty", 0, NoFields), MqttPayload("number", 0, NoFields),
     MqttPayload("number", 1, NoFields), MqttPayload("words", 1, NoFields),
     MqttPayload("junk", 0, NoFields), MqttPayload("null", 0, NoFields),
     MqttPayload("undecodable", 0, NoFields),
     MqttPayload("object", 0, NoFields),
     MqttPayload("object", 0, Fields(1, -1, -1)),
     MqttPayload("object", 0, Fields(0, 1, -1)),
     MqttPayload("object", 0, Fields(-1, -1, 1))}
\* the values of output attributes
PublishValues ==
    {PyValue(kind, 0) : kind \in {"dict", "list", "DataFrame", "str", "None", "datetime"}}
    \cup {PyValue(kind, n) : kind \in {"float", "int", "bool"}, n \in 0..1}
PublishLists == {<< v >> : v \in PublishValues}
                \cup {<< v, w >> : v \in PublishValues, w \in PublishValues}
\* thermal storages of about 1 m3, the limits of their sensor in degrees
\* Celsius, and readings below, at, between and above the limits
StorageVolumes == {10000 + digit : digit \in 0..MaxVolumeDigit}
StorageLimits == {TemperatureLimits(30, 70), TemperatureLimits(30, 60),
                  TemperatureLimits(20, 90)}
StorageReadings(temperature_limits) ==
    LET min == temperature_limits.minimal_temperature
        max == temperature_limits.maximal_temperature
    IN {min - 2, min, min + 1, (min + max) \div 2, max, max + 2}
\* the heights of the sensors of a thermal storage, from bottom to top, the
\* names of its five sensors (the fourth and the fifth are optional) and the
\* temperature values by sensor name
HeightLevels == {0, 30, 50, 100}
SensorHeights ==
    {heights \in UNION {[1..n -> HeightLevels] : n \in 1..MaxSensors} :
        \A i \in 1..(Len(heights) - 1) : heights[i] <= heights[i + 1]}
SensorNames ==
    {<< "s1", "s2", "s3", fourth, fifth >> : fourth \in {"s4", "None"},
                                             fifth \in {"s5", "None"}}
TemperatureValues == [{"s1", "s2", "s3", "s4", "s5"} -> {40, 60}]
\* the calls: the component class, the Input and Output schema as
\* _get_input_and_output_models asks for them, the static data model
LoaderOps == {"class", "input", "output", "static"}
\* the subname set_component_config_data asks the Config-data schema for
ConfigDataSubname == "ConfigDataModel"

----------------------------------------------------------------------------
\* State

VARIABLES
    pc,               \* "new": not constructed, "ready": constructor returned,
                      \* "failed": the constructor raised
    component_config, \* self.component_config
    config_model,     \* Config-data schema of the component type
    config_data,      \* self.config_data
    static_data,      \* self.static_data
    static_src,       \* history: static data of the last stored resolution
    io_model,         \* self.io_model
    input_values,     \* self.input_values
    ctor,             \* history: the constructor's static data argument and error
    last,             \* history: the last call and its outcome
    lookup,           \* a call of get_component_input and its result
    controller,       \* a TwoPointController and its last call
    law,              \* an evaluation of the control law and its result
    loader,           \* a call of the component loader and its result
    storage,          \* a thermal storage, its sensor reading and its results
    mqtt,             \* an MqttConnection: its message store, the network thread
                      \* in on_message, the service thread in get_data_from_mqtt
    service           \* the coroutine start_service of a ControllerBasicService

vars == << pc, component_config, config_model, config_data, static_data, static_src,
           io_model, input_values, ctor, last, lookup, controller, law, loader, storage, mqtt, service >>

NoData == InputDataModel(<< >>, << >>)
\* repeat: the call resolved the config against the static data of the
\* stored resolution before it; returned: what each invoked calculation
\* method did, in the order of the calls; after_failure: the call before this
\* run was a run whose input staging failed
Last(op, raised, err, static_arg, data, components, invoked, calls, staged, repeat) ==
    [op |-> op, raised |-> raised, err |-> err, static_arg |-> static_arg,
     data |-> data, components |-> components, invoked |-> invoked,
     calls |-> calls, staged |-> staged, repeat |-> repeat, returned |-> << >>,
     after_failure |-> FALSE]
NoStaged == [ok |-> FALSE, root |-> EmptyInputs, err |-> NoError]
NoLast == Last("none", FALSE, NoError, NoStaticData, NoData, << >>, << >>, << >>, NoStaged, FALSE)
NoLookup == [entities |-> << >>, alloc |-> NoAllocation, done |-> FALSE,
             result |-> Fail(NoError)]
\* components: the list run() returned; assigned: set_input_values assigned
\* self.controller_values in this call
ControllerLast(op, raised, err, components, signal, assigned) ==
    [op |-> op, raised |-> raised, err |-> err, components |-> components,
     signal |-> signal, assigned |-> assigned]
NoControllerLast == ControllerLast("none", FALSE, NoError, << >>, NoControlSignal, FALSE)
Controller(phase, self, calls) == [phase |-> phase, self |-> self, last |-> calls]
NoController ==
    Controller("new",
               ControllerSelf([id \in StaticDataIds |-> NoStaticAttribute],
                              NoControllerValues, NoneUnit),
               NoControllerLast)
\* the network thread: pc "idle" outside on_message, "timestamp" before the
\* timestamp of the message is stored, "extract" before the payload of an
\* entity's topic is scanned; before is the store when the message arrived
NoNet == [pc |-> "idle", topic |-> << >>, payload |-> NonePayload, current_time |-> -1,
          err |-> NoError, before |-> << >>, handled |-> FALSE]
\* the service thread: pc "idle" outside get_data_from_mqtt, "payload" before
\* the payload of attribute index is read, "timestamp" before its timestamp is
NoSvc == [pc |-> "idle", entity |-> MqttEntity("", << >>), index |-> 0,
          data |-> NoneVal, data_available |-> FALSE, payload |-> NonePayload,
          result |-> << >>, returned |-> FALSE]
\* pairs: every (payload, timestamp) a topic's entry was given as a whole
Mqtt(store, clock, net, svc, pairs, published) ==
    [store |-> store, clock |-> clock, net |-> net, svc |-> svc, pairs |-> pairs,
     published |-> published]
NoMqtt == Mqtt(<< >>, 0, NoNet, NoSvc, {}, << >>)
\* start_service: pc is the call the loop is about to make, elapsed the time
\* since start_time and hold_time the sampling time, both in steps of 0.1 s;
\* calls lists the calls of the cycle so far, slept counts the sleeps of
\* _hold_sampling_time in the cycle, waited is elapsed at the moment
\* _hold_sampling_time was called
\* finished is the number of sleeps of the last completed cycle, -1 before
\* the first cycle has completed
Service(pc_, elapsed, hold_time, calls, slept, waited, warned, mqtt_input, finished) ==
    [pc |-> pc_, elapsed |-> elapsed, hold_time |-> hold_time, calls |-> calls,
     slept |-> slept, waited |-> waited, warned |-> warned, mqtt_input |-> mqtt_input,
     finished |-> finished]
NoService == Service("off", 0, 0, << >>, 0, 0, FALSE, FALSE, -1)
NoStorage == [volume |-> 0, temperature_limits |-> TemperatureLimits(0, 0),
              sensor_values |-> 0, done |-> FALSE, state_of_charge |-> 0,
              nominal_energy_content |-> 0, energy_content |-> 0,
              sensor_heights |-> << >>, sensor_volumes |-> << >>,
              sensor_names |-> << >>, temperature_values |-> << >>,
              temperature_sensor_values |-> << >>]
NoLoader == [registry |-> ModuleRegistry({}, {}), component_type |-> << "component" >>,
             op |-> "none", done |-> FALSE,
             result |-> LoadResult("none", NoClass, NoError, "", "")]
NoLaw == [current_value |-> 0, latest_control_signal |-> NoneVal, setpoint |-> 0,
          hysteresis |-> 0, done |-> FALSE, result |-> NoneVal]

Init ==
    /\ pc = "new"
    /\ component_config \in ComponentConfigs
    /\ config_model \in ConfigModels
    /\ config_data = EmptyRoot
    /\ static_data = UnsetStaticData
    /\ static_src = NoStaticData
    /\ io_model = NoIOModel
    /\ input_values = UnsetInputValues
    /\ ctor = [static_given |-> FALSE, err |-> NoError]
    /\ last = NoLast
    /\ lookup = NoLookup
    /\ controller = NoController
    /\ law = NoLaw
    /\ loader = NoLoader
    /\ storage = NoStorage
    /\ mqtt = NoMqtt
    /\ service = NoService

\* the configuration after a resolution
ConfigAfter(config_result) ==
    [component_config EXCEPT !.config = config_result.config]

\* component = BasicComponent(config, component_id, static_data)
Construct(static_arg) ==
    /\ pc = "new"
    /\ \E r \in {BasicComponent_init(component_config, config_model, static_arg)} :
          /\ pc' = IF r.ok THEN "ready" ELSE "failed"
          /\ component_config' = ConfigAfter(r.config_result)
          /\ static_data' = IF r.config_result.status = "stored"
                            THEN [set |-> TRUE, root |-> r.config_result.root]
                            ELSE static_data
          /\ static_src' = IF r.config_result.status = "stored" THEN static_arg
                           ELSE static_src
          /\ io_model' = r.io_model
          /\ ctor' = [static_given |-> static_arg.given, err |-> r.err]
          /\ last' = Last("construct", ~r.ok, r.err, static_arg, NoData,
                          << >>, << >>, r.calls, NoStaged, FALSE)
    /\ UNCHANGED << config_model, config_data, input_values, lookup, controller, law, loader, storage, mqtt, service >>

\* mutant: a run whose input staging failed drops the I/O model
Run_failure_drops_io_model(data, calculation) ==
    /\ pc = "ready"
    /\ \E r \in {run(io_model, data, calculation)} :
          /\ input_values' = IF r.staged.ok
                             THEN [set |-> TRUE, root |-> r.staged.root]
                             ELSE input_values
          /\ io_model' = IF io_model.set /\ ~r.staged.ok THEN NoIOModel ELSE io_model
          /\ last' = [Last("run", r.raised, r.err, NoStaticData, data,
                           r.components, r.invoked, << >>, r.staged, FALSE)
                        EXCEPT !.returned = [i \in 1..Len(r.invoked) |->
                                                calculation[r.invoked[i]]],
                               !.after_failure = last.op = "run" /\ ~last.staged.ok]
    /\ UNCHANGED << pc, component_config, config_model, config_data, static_data,
                    static_src, ctor, lookup, controller, law, loader, storage, mqtt, service >>

\* component.run(data)
Run(data, calculation) ==
    /\ pc = "ready"
    /\ \E r \in {run(io_model, data, calculation)} :
          /\ input_values' = IF r.staged.ok
                             THEN [set |-> TRUE, root |-> r.staged.root]
                             ELSE input_values
          /\ last' = [Last("run", r.raised, r.err, NoStaticData, data,
                           r.components, r.invoked, << >>, r.staged, FALSE)
                        EXCEPT !.returned = [i \in 1..Len(r.invoked) |->
                                                calculation[r.invoked[i]]],
                               !.after_failure = last.op = "run" /\ ~last.staged.ok]
    /\ UNCHANGED << pc, component_config, config_model, config_data, static_data,
                    static_src, io_model, ctor, lookup, controller, law, loader, storage, mqtt, service >>

\* mutant: a failed config resolution leaves the component without config data
Calibrate_failure_clears(static_arg) ==
    /\ pc = "ready"
    /\ \E r \in {calibrate(component_config.id, config_model, static_arg,
                          component_config.config)} :
          /\ component_config' = ConfigAfter(r.config_result)
          /\ static_data' = IF r.config_result.status = "stored"
                            THEN [set |-> TRUE, root |-> r.config_result.root]
                            ELSE IF r.config_result.status = "raised"
                            THEN UnsetStaticData
                            ELSE static_data
          /\ static_src' = IF r.config_result.status = "stored" THEN static_arg
                           ELSE static_src
          /\ last' = Last("calibrate", r.raised, r.err, static_arg, NoData,
                          << >>, << >>, r.calls, NoStaged,
                          static_arg.given /\ static_data.set /\ static_arg = static_src)
    /\ UNCHANGED << pc, config_model, config_data, io_model, input_values, ctor, lookup, controller, law, loader, storage, mqtt, service >>

\* component.calibrate(static_data)
Calibrate(static_arg) ==
    /\ pc = "ready"
    /\ \E r \in {calibrate(component_config.id, config_model, static_arg,
                          component_config.config)} :
          /\ component_config' = ConfigAfter(r.config_result)
          /\ static_data' = IF r.config_result.status = "stored"
                            THEN [set |-> TRUE, root |-> r.config_result.root]
                            ELSE static_data
          /\ static_src' = IF r.config_result.status = "stored" THEN static_arg
                           ELSE static_src
          /\ last' = Last("calibrate", r.raised, r.err, static_arg, NoData,
                          << >>, << >>, r.calls, NoStaged,
                          static_arg.given /\ static_data.set /\ static_arg = static_src)
    /\ UNCHANGED << pc, config_model, config_data, io_model, input_values, ctor, lookup, controller, law, loader, storage, mqtt, service >>

Next ==
    \/ \E static_arg \in StaticArgs : Construct(static_arg)
    \/ \E data \in CycleData, calculation \in Calculations : Run(data, calculation)
    \/ \E static_arg \in StaticArgs : Calibrate(static_arg)

Spec == Init /\ [][Next]_vars

----------------------------------------------------------------------------
\* get_component_input on its own

InitLookup ==
    /\ pc = "new"
    /\ component_config = [id |-> "c1", inputs |-> FirstIOConfig.inputs,
                            outputs |-> FirstIOConfig.outputs,
                            config |-> ConfigMap(FALSE, AbsentEntry, AbsentEntry)]
    /\ config_model = NoConfigDataModel
    /\ config_data = EmptyRoot
    /\ static_data = UnsetStaticData
    /\ static_src = NoStaticData
    /\ io_model = NoIOModel
    /\ input_values = UnsetInputValues
    /\ ctor = [static_given |-> FALSE, err |-> NoError]
    /\ last = NoLast
    /\ lookup \in {[entities |-> l, alloc |-> a, done |-> FALSE, result |-> Fail(NoError)] :
                      l \in LookupLists, a \in LookupAllocations}
    /\ controller = NoController
    /\ law = NoLaw
    /\ loader = NoLoader
    /\ storage = NoStorage
    /\ mqtt = NoMqtt
    /\ service = NoService

GetComponentInput ==
    /\ ~lookup.done
    /\ lookup' = [lookup EXCEPT !.done = TRUE,
                                !.result = get_component_input(lookup.entities, lookup.alloc)]
    /\ UNCHANGED << pc, component_config, config_model, config_data, static_data,
                    static_src, io_model, input_values, ctor, last, controller, law, loader, storage, mqtt, service >>

NextLookup == GetComponentInput

SpecLookup == InitLookup /\ [][NextLookup]_vars

----------------------------------------------------------------------------
\* TwoPointController on its own

InitController ==
    /\ pc = "new"
    /\ component_config = [id |-> "c1", inputs |-> FirstIOConfig.inputs,
                            outputs |-> FirstIOConfig.outputs,
                            config |-> ConfigMap(FALSE, AbsentEntry, AbsentEntry)]
    /\ config_model = NoConfigDataModel
    /\ config_data = EmptyRoot
    /\ static_data = UnsetStaticData
    /\ static_src = NoStaticData
    /\ io_model = NoIOModel
    /\ input_values = UnsetInputValues
    /\ ctor = [static_given |-> FALSE, err |-> NoError]
    /\ last = NoLast
    /\ lookup = NoLookup
    /\ controller \in {Controller("new", ControllerSelf(root, NoControllerValues, NoneUnit),
                                   NoControllerLast) : root \in ControllerStatics}
    /\ law = NoLaw
    /\ loader = NoLoader
    /\ storage = NoStorage
    /\ mqtt = NoMqtt
    /\ service = NoService

\* TwoPointController(config, component_id, static_data): the constructor of
\* the base class ends with prepare_component
ControllerConstruct ==
    /\ controller.phase = "new"
    /\ \E r \in {prepare_component(controller.self)} :
          controller' =
              Controller(IF r.raised THEN "failed" ELSE "ready",
                         [controller.self EXCEPT !.unit_hysteresis = r.unit_hysteresis],
                         ControllerLast("construct", r.raised, r.err, << >>,
                                        NoControlSignal, FALSE))
    /\ UNCHANGED << pc, component_config, config_model, config_data, static_data,
                    static_src, io_model, input_values, ctor, last, lookup, law, loader, storage, mqtt, service >>

\* run(data) of a TwoPointController: set_input_values, then the calculation
\* of the output control_signal
ControllerRun(input_entities) ==
    /\ controller.phase = "ready"
    /\ \E staged \in {TwoPointController_set_input_values(controller.self,
                                                            input_entities)} :
          IF staged.raised /\ staged.err.kind \in {"ValueError", "KeyError"}
          THEN controller' = [controller EXCEPT
                   !.last = ControllerLast("run", FALSE, NoError, << >>,
                                           NoControlSignal, FALSE)]
          ELSE IF staged.raised
          THEN controller' = [controller EXCEPT
                   !.last = ControllerLast("run", TRUE, staged.err, << >>,
                                           NoControlSignal, FALSE)]
          ELSE \E self \in {[controller.self EXCEPT
                                 !.controller_values = staged.controller_values]} :
               \E signal \in {get_control_signal(self)} :
                  controller' = [controller EXCEPT
                      !.self = self,
                      !.last = ControllerLast("run", signal.raised, signal.err,
                                   IF signal.raised THEN << >>
                                   ELSE << DataTransferComponentModel(
                                              "out", "control", signal.value, signal.unit) >>,
                                   signal, staged.assigned)]
    /\ UNCHANGED << pc, component_config, config_model, config_data, static_data,
                    static_src, io_model, input_values, ctor, last, lookup, law, loader, storage, mqtt, service >>

NextController ==
    \/ ControllerConstruct
    \/ \E input_entities \in ControllerCycles : ControllerRun(input_entities)

SpecController == InitController /\ [][NextController]_vars

----------------------------------------------------------------------------
\* the control law on its own

InitLaw ==
    /\ pc = "new"
    /\ component_config = [id |-> "c1", inputs |-> FirstIOConfig.inputs,
                            outputs |-> FirstIOConfig.outputs,
                            config |-> ConfigMap(FALSE, AbsentEntry, AbsentEntry)]
    /\ config_model = NoConfigDataModel
    /\ config_data = EmptyRoot
    /\ static_data = UnsetStaticData
    /\ static_src = NoStaticData
    /\ io_model = NoIOModel
    /\ input_values = UnsetInputValues
    /\ ctor = [static_given |-> FALSE, err |-> NoError]
    /\ last = NoLast
    /\ lookup = NoLookup
    /\ controller = NoController
    /\ law \in {[current_value |-> c, latest_control_signal |-> l, setpoint |-> s,
                  hysteresis |-> h, done |-> FALSE, result |-> NoneVal] :
                    c \in 0..(MaxLevel + 1), l \in {CommandEnabled, CommandDisabled},
                    s \in 0..MaxLevel, h \in 0..MaxLevel}
    /\ loader = NoLoader
    /\ storage = NoStorage
    /\ mqtt = NoMqtt
    /\ service = NoService

ApplyControlLaw ==
    /\ ~law.done
    /\ law' = [law EXCEPT !.done = TRUE,
                          !.result = ControlLaw(law.current_value, law.latest_control_signal,
                                                law.setpoint, law.hysteresis,
                                                CommandEnabled, CommandDisabled)]
    /\ UNCHANGED << pc, component_config, config_model, config_data, static_data,
                    static_src, io_model, input_values, ctor, last, lookup, controller, loader, storage, mqtt, service >>

NextLaw == ApplyControlLaw

SpecLaw == InitLaw /\ [][NextLaw]_vars

----------------------------------------------------------------------------
\* the component loader on its own

InitLoader ==
    /\ pc = "new"
    /\ component_config = [id |-> "c1", inputs |-> FirstIOConfig.inputs,
                            outputs |-> FirstIOConfig.outputs,
                            config |-> ConfigMap(FALSE, AbsentEntry, AbsentEntry)]
    /\ config_model = NoConfigDataModel
    /\ config_data = EmptyRoot
    /\ static_data = UnsetStaticData
    /\ static_src = NoStaticData
    /\ io_model = NoIOModel
    /\ input_values = UnsetInputValues
    /\ ctor = [static_given |-> FALSE, err |-> NoError]
    /\ last = NoLast
    /\ lookup = NoLookup
    /\ controller = NoController
    /\ law = NoLaw
    /\ storage = NoStorage
    /\ mqtt = NoMqtt
    /\ service = NoService
    /\ \E t \in ComponentTypes :
          \E registry \in ModuleRegistries(t), op \in LoaderOps :
             loader = [registry |-> registry, component_type |-> t, op |-> op,
                       done |-> FALSE,
                       result |-> LoadResult("none", NoClass, NoError, "", "")]

Load ==
    /\ ~loader.done
    /\ loader' = [loader EXCEPT
          !.done = TRUE,
          !.result =
              CASE loader.op = "class" ->
                     get_component_class_model(loader.registry, loader.component_type)
                [] loader.op = "input" ->
                     get_component_io_model(loader.registry, loader.component_type,
                                            "InputModel")
                [] loader.op = "output" ->
                     get_component_io_model(loader.registry, loader.component_type,
                                            "OutputModel")
                [] loader.op = "static" ->
                     get_component_static_data_model(loader.registry,
                                                     loader.component_type, "StaticData")]
    /\ UNCHANGED << pc, component_config, config_model, config_data, static_data,
                    static_src, io_model, input_values, ctor, last, lookup,
                    controller, law, storage, mqtt, service >>

NextLoader == Load

SpecLoader == InitLoader /\ [][NextLoader]_vars

----------------------------------------------------------------------------
\* the thermal storage on its own

InitStorage ==
    /\ pc = "new"
    /\ component_config = [id |-> "c1", inputs |-> FirstIOConfig.inputs,
                            outputs |-> FirstIOConfig.outputs,
                            config |-> ConfigMap(FALSE, AbsentEntry, AbsentEntry)]
    /\ config_model = NoConfigDataModel
    /\ config_data = EmptyRoot
    /\ static_data = UnsetStaticData
    /\ static_src = NoStaticData
    /\ io_model = NoIOModel
    /\ input_values = UnsetInputValues
    /\ ctor = [static_given |-> FALSE, err |-> NoError]
    /\ last = NoLast
    /\ lookup = NoLookup
    /\ controller = NoController
    /\ law = NoLaw
    /\ loader = NoLoader
    /\ mqtt = NoMqtt
    /\ service = NoService
    /\ \E volume \in StorageVolumes, temperature_limits \in StorageLimits :
          \E temperature \in StorageReadings(temperature_limits) :
             storage = [NoStorage EXCEPT !.volume = volume,
                                         !.temperature_limits = temperature_limits,
                                         !.sensor_values = temperature]

\* set_temperature_values, calculate_state_of_charge and get_energy_content
\* of the state of charge
StorageCalculate ==
    /\ ~storage.done
    /\ \E soc \in {calculate_state_of_charge(storage.volume, storage.temperature_limits,
                                              storage.sensor_values)},
          nominal \in {get_nominal_energy_content(storage.volume,
                                                  storage.temperature_limits)} :
          storage' = [storage EXCEPT
                         !.done = TRUE,
                         !.state_of_charge = soc,
                         !.nominal_energy_content = nominal,
                         !.energy_content = get_energy_content(soc, nominal)]
    /\ UNCHANGED << pc, component_config, config_model, config_data, static_data,
                    static_src, io_model, input_values, ctor, last, lookup,
                    controller, law, loader, mqtt, service >>

NextStorage == StorageCalculate

SpecStorage == InitStorage /\ [][NextStorage]_vars

----------------------------------------------------------------------------
\* the sensors of a thermal storage

InitSensors ==
    /\ pc = "new"
    /\ component_config = [id |-> "c1", inputs |-> FirstIOConfig.inputs,
                            outputs |-> FirstIOConfig.outputs,
                            config |-> ConfigMap(FALSE, AbsentEntry, AbsentEntry)]
    /\ config_model = NoConfigDataModel
    /\ config_data = EmptyRoot
    /\ static_data = UnsetStaticData
    /\ static_src = NoStaticData
    /\ io_model = NoIOModel
    /\ input_values = UnsetInputValues
    /\ ctor = [static_given |-> FALSE, err |-> NoError]
    /\ last = NoLast
    /\ lookup = NoLookup
    /\ controller = NoController
    /\ law = NoLaw
    /\ loader = NoLoader
    /\ mqtt = NoMqtt
    /\ service = NoService
    /\ \E volume \in StorageVolumes, sensor_heights \in SensorHeights,
          sensor_names \in SensorNames :
          storage = [NoStorage EXCEPT !.volume = volume,
                                      !.sensor_heights = sensor_heights,
                                      !.sensor_names = sensor_names]

\* ThermalStorage.__init__: self.sensor_volumes
CalculateVolumes ==
    /\ storage.sensor_volumes = << >>
    /\ storage' = [storage EXCEPT !.sensor_volumes =
                      calculate_volume_per_sensor(storage.sensor_heights, storage.volume)]
    /\ UNCHANGED << pc, component_config, config_model, config_data, static_data,
                    static_src, io_model, input_values, ctor, last, lookup,
                    controller, law, loader, mqtt, service >>

SetTemperatureValues(temperature_values) ==
    /\ storage.temperature_sensor_values = << >>
    /\ storage' = [storage EXCEPT
                      !.temperature_values = temperature_values,
                      !.temperature_sensor_values =
                          set_temperature_values(storage.sensor_names, temperature_values)]
    /\ UNCHANGED << pc, component_config, config_model, config_data, static_data,
                    static_src, io_model, input_values, ctor, last, lookup,
                    controller, law, loader, mqtt, service >>

NextSensors ==
    \/ CalculateVolumes
    \/ \E temperature_values \in TemperatureValues :
          SetTemperatureValues(temperature_values)

SpecSensors == InitSensors /\ [][NextSensors]_vars

----------------------------------------------------------------------------
\* the MQTT connection: the network thread and the service thread

InitMqtt ==
    /\ pc = "new"
    /\ component_config = [id |-> "c1", inputs |-> FirstIOConfig.inputs,
                            outputs |-> FirstIOConfig.outputs,
                            config |-> ConfigMap(FALSE, AbsentEntry, AbsentEntry)]
    /\ config_model = NoConfigDataModel
    /\ config_data = EmptyRoot
    /\ static_data = UnsetStaticData
    /\ static_src = NoStaticData
    /\ io_model = NoIOModel
    /\ input_values = UnsetInputValues
    /\ ctor = [static_given |-> FALSE, err |-> NoError]
    /\ last = NoLast
    /\ lookup = NoLookup
    /\ controller = NoController
    /\ law = NoLaw
    /\ loader = NoLoader
    /\ storage = NoStorage
    /\ service = NoService
    /\ \E store \in {prepare_mqtt_message_store(TopicPrefix, MqttInputs \cup MqttOutputs)} :
          mqtt = Mqtt(store, 0, NoNet, NoSvc,
                      {<< topic, store[topic].payload, store[topic].timestamp >> :
                           topic \in DOMAIN store},
                      << >>)

\* on_message up to the assignment of the payload
OnMessagePayload(topic, payload) ==
    /\ mqtt.net.pc = "idle"
    /\ mqtt.clock < MaxClock
    /\ LET current_time == mqtt.clock + 1
           net == [NoNet EXCEPT !.topic = topic, !.payload = payload,
                                !.current_time = current_time, !.before = mqtt.store]
       IN IF topic \notin DOMAIN mqtt.store
          THEN mqtt' = [mqtt EXCEPT !.clock = current_time,
                                    !.net = [net EXCEPT !.handled = TRUE]]
          ELSE IF payload.kind = "undecodable"
          THEN mqtt' = [mqtt EXCEPT !.clock = current_time,
                                    !.net = [net EXCEPT !.handled = TRUE]]
          ELSE mqtt' = [mqtt EXCEPT
                           !.clock = current_time,
                           !.net = [net EXCEPT !.pc = "timestamp"],
                           !.store[topic].payload = payload,
                           !.pairs = @ \cup {<< topic, payload, current_time >>}]
    /\ UNCHANGED << pc, component_config, config_model, config_data, static_data,
                    static_src, io_model, input_values, ctor, last, lookup,
                    controller, law, loader, storage, service >>

\* on_message: the assignment of the timestamp
OnMessageTimestamp ==
    /\ mqtt.net.pc = "timestamp"
    /\ mqtt' = [mqtt EXCEPT
                   !.store[mqtt.net.topic].timestamp = mqtt.net.current_time,
                   !.net.pc = IF mqtt.store[mqtt.net.topic].attribute_id = "None"
                              THEN "extract" ELSE "idle",
                   !.net.handled = mqtt.store[mqtt.net.topic].attribute_id # "None"]
    /\ UNCHANGED << pc, component_config, config_model, config_data, static_data,
                    static_src, io_model, input_values, ctor, last, lookup,
                    controller, law, loader, storage, service >>

\* on_message on the topic of an entity: the payload is parsed and scanned
\* for the attributes of the entity
OnMessageExtract ==
    /\ mqtt.net.pc = "extract"
    /\ LET payload == JsonLoads(mqtt.net.payload)
       IN IF payload.kind = "junk"
          THEN mqtt' = [mqtt EXCEPT !.net.pc = "idle", !.net.handled = TRUE]
          ELSE \E r \in {extract_attributes_from_payload_and_update_store(
                             mqtt.store,
                             [is_model |-> FALSE,
                              id |-> mqtt.store[mqtt.net.topic].entity_id],
                             payload, mqtt.net.current_time)} :
                  mqtt' = [mqtt EXCEPT
                             !.store = r.store,
                             !.net.pc = "idle",
                             !.net.handled = TRUE,
                             !.net.err = r.err,
                             !.pairs = @ \cup {<< topic, r.store[topic].payload,
                                                  r.store[topic].timestamp >> :
                                                  topic \in DOMAIN r.store}]
    /\ UNCHANGED << pc, component_config, config_model, config_data, static_data,
                    static_src, io_model, input_values, ctor, last, lookup,
                    controller, law, loader, storage, service >>

\* get_data_from_mqtt is called
GetDataStart(entity) ==
    /\ mqtt.svc.pc = "idle"
    /\ mqtt' = [mqtt EXCEPT !.svc = [NoSvc EXCEPT !.pc = "payload", !.entity = entity,
                                                 !.index = 1]]
    /\ UNCHANGED << pc, component_config, config_model, config_data, static_data,
                    static_src, io_model, input_values, ctor, last, lookup,
                    controller, law, loader, storage, service >>

\* get_data_from_mqtt: the payload of the next attribute is read and
\* converted, or, after the last attribute, the entity is returned
GetDataPayload ==
    /\ mqtt.svc.pc = "payload"
    /\ LET svc == mqtt.svc
           entity == svc.entity
       IN IF svc.index > Len(entity.attributes)
          THEN mqtt' = [mqtt EXCEPT !.svc.pc = "idle", !.svc.returned = TRUE]
          ELSE LET topic == assemble_topic_parts(<< TopicPrefix, entity.id,
                                                    entity.attributes[svc.index] >>)
               IN IF topic \notin DOMAIN mqtt.store
                  THEN mqtt' = [mqtt EXCEPT
                          !.svc.index = @ + 1,
                          !.svc.result = Append(@,
                              MqttInputAttribute(entity.attributes[svc.index], NoneVal,
                                                 FALSE, -1, NonePayload))]
                  ELSE \E r \in {extract_payload_value(mqtt.store[topic].payload)} :
                          mqtt' = [mqtt EXCEPT
                             !.svc.pc = "timestamp",
                             !.svc.payload = mqtt.store[topic].payload,
                             !.svc.data = IF r.raised THEN NoneVal ELSE r.value,
                             !.svc.data_available = ~r.raised]
    /\ UNCHANGED << pc, component_config, config_model, config_data, static_data,
                    static_src, io_model, input_values, ctor, last, lookup,
                    controller, law, loader, storage, service >>

\* get_data_from_mqtt: the timestamp of the attribute is read and the
\* attribute is appended
GetDataTimestamp ==
    /\ mqtt.svc.pc = "timestamp"
    /\ LET svc == mqtt.svc
           entity == svc.entity
           topic == assemble_topic_parts(<< TopicPrefix, entity.id,
                                            entity.attributes[svc.index] >>)
       IN mqtt' = [mqtt EXCEPT
             !.svc.pc = "payload",
             !.svc.index = @ + 1,
             !.svc.result = Append(@,
                 MqttInputAttribute(entity.attributes[svc.index], svc.data,
                                    svc.data_available, mqtt.store[topic].timestamp,
                                    svc.payload))]
    /\ UNCHANGED << pc, component_config, config_model, config_data, static_data,
                    static_src, io_model, input_values, ctor, last, lookup,
                    controller, law, loader, storage, service >>

NextMqtt ==
    \/ \E topic \in MessageTopics, payload \in MessagePayloads :
          OnMessagePayload(topic, payload)
    \/ OnMessageTimestamp
    \/ OnMessageExtract
    \/ \E entity \in MqttQueried : GetDataStart(entity)
    \/ GetDataPayload
    \/ GetDataTimestamp

SpecMqtt == InitMqtt /\ [][NextMqtt]_vars

\* publishing on its own
InitPublish == InitMqtt

\* send_data_to_mqtt(output_entity, output_attributes): every attribute's
\* value is published on the attribute's topic
SendData(output_entity, values) ==
    /\ mqtt.published = << >>
    /\ mqtt' = [mqtt EXCEPT !.published =
                   [i \in 1..Len(values) |->
                       [value |-> values[i],
                        message |-> publish(assemble_topic_parts(
                                               << TopicPrefix, output_entity.id,
                                                  output_entity.attributes[1] >>),
                                           values[i])]]]
    /\ UNCHANGED << pc, component_config, config_model, config_data, static_data,
                    static_src, io_model, input_values, ctor, last, lookup,
                    controller, law, loader, storage, service >>

NextPublish ==
    \E output_entity \in MqttOutputs, values \in PublishLists :
        SendData(output_entity, values)

SpecPublish == InitPublish /\ [][NextPublish]_vars

----------------------------------------------------------------------------
\* the service loop

\* elapsed is counted up to MaxHold + 2: every comparison is with a
\* hold_time of at most MaxHold
Later(elapsed, duration) ==
    IF elapsed + duration > MaxHold + 2 THEN MaxHold + 2 ELSE elapsed + duration

\* the call the loop makes after a call returned
NextCall(call) ==
    CASE call = "get_data" -> "calculation"
      [] call = "calculation" -> "prepare_output"
      [] call = "prepare_output" -> "send_outputs"
      [] call = "send_outputs" -> "_set_health_timestamp"
      [] call = "_set_health_timestamp" -> "_hold_sampling_time"

InitService ==
    /\ pc = "new"
    /\ component_config = [id |-> "c1", inputs |-> FirstIOConfig.inputs,
                            outputs |-> FirstIOConfig.outputs,
                            config |-> ConfigMap(FALSE, AbsentEntry, AbsentEntry)]
    /\ config_model = NoConfigDataModel
    /\ config_data = EmptyRoot
    /\ static_data = UnsetStaticData
    /\ static_src = NoStaticData
    /\ io_model = NoIOModel
    /\ input_values = UnsetInputValues
    /\ ctor = [static_given |-> FALSE, err |-> NoError]
    /\ last = NoLast
    /\ lookup = NoLookup
    /\ controller = NoController
    /\ law = NoLaw
    /\ loader = NoLoader
    /\ storage = NoStorage
    /\ mqtt = NoMqtt
    /\ \E hold_time \in 0..MaxHold, mqtt_input \in BOOLEAN :
          service = Service("get_data", 0, hold_time, << >>, 0, 0, FALSE, mqtt_input, -1)

\* get_data raises NotSupportedError for an input entity of the MQTT
\* interface: the coroutine ends
GetDataRaises ==
    /\ service.pc = "get_data"
    /\ service.mqtt_input
    /\ service' = [service EXCEPT !.pc = "raised", !.calls = Append(@, "get_data")]
    /\ UNCHANGED << pc, component_config, config_model, config_data, static_data,
                    static_src, io_model, input_values, ctor, last, lookup,
                    controller, law, loader, storage, mqtt >>

\* one of get_data, calculation, prepare_output, send_outputs and
\* _set_health_timestamp is called and returns after duration
Call(duration) ==
    /\ service.pc \in {"get_data", "calculation", "prepare_output", "send_outputs",
                       "_set_health_timestamp"}
    /\ service.pc = "get_data" => ~service.mqtt_input
    /\ service' = [service EXCEPT
                      !.pc = NextCall(service.pc),
                      !.calls = Append(@, service.pc),
                      !.elapsed = Later(@, duration),
                      !.waited = IF service.pc = "_set_health_timestamp"
                                 THEN Later(service.elapsed, duration) ELSE @,
                      !.warned = IF service.pc = "_set_health_timestamp"
                                 THEN Later(service.elapsed, duration) > service.hold_time
                                 ELSE @]
    /\ UNCHANGED << pc, component_config, config_model, config_data, static_data,
                    static_src, io_model, input_values, ctor, last, lookup,
                    controller, law, loader, storage, mqtt >>

\* _hold_sampling_time: await sleep(0.1), which takes 0.1 s or longer
HoldSleep(duration) ==
    /\ service.pc = "_hold_sampling_time"
    /\ service.elapsed < service.hold_time
    /\ service' = [service EXCEPT !.elapsed = Later(@, duration), !.slept = @ + 1]
    /\ UNCHANGED << pc, component_config, config_model, config_data, static_data,
                    static_src, io_model, input_values, ctor, last, lookup,
                    controller, law, loader, storage, mqtt >>

\* mutant: _hold_sampling_time returns whatever time has elapsed
HoldReturn_at_once ==
    /\ service.pc = "_hold_sampling_time"
    /\ service' = Service("get_data", 0, service.hold_time, << >>, 0, 0, FALSE,
                          service.mqtt_input, service.slept)
    /\ UNCHANGED << pc, component_config, config_model, config_data, static_data,
                    static_src, io_model, input_values, ctor, last, lookup,
                    controller, law, loader, storage, mqtt >>

\* _hold_sampling_time returns and the next cycle starts with a new
\* start_time
HoldReturn ==
    /\ service.pc = "_hold_sampling_time"
    /\ ~(service.elapsed < service.hold_time)
    /\ service' = Service("get_data", 0, service.hold_time, << >>, 0, 0, FALSE,
                          service.mqtt_input, service.slept)
    /\ UNCHANGED << pc, component_config, config_model, config_data, static_data,
                    static_src, io_model, input_values, ctor, last, lookup,
                    controller, law, loader, storage, mqtt >>

NextService ==
    \/ GetDataRaises
    \/ \E duration \in 0..2 : Call(duration)
    \/ \E duration \in 1..2 : HoldSleep(duration)
    \/ HoldReturn

SpecService == InitService /\ [][NextService]_vars

----------------------------------------------------------------------------
\* Properties

\* positions << i, j >> of the attributes of a list of entities that an
\* allocation names
Matches(entities, alloc) ==
    {p \in (1..Len(entities)) \X (1..2) :
        /\ entities[p[1]].id = alloc.entity
        /\ p[2] <= Len(entities[p[1]].attributes)
        /\ entities[p[1]].attributes[p[2]].id = alloc.attribute}
AttributeOf(entities, p) == entities[p[1]].attributes[p[2]]
FirstMatch(entities, alloc) ==
    CHOOSE p \in Matches(entities, alloc) :
        \A q \in Matches(entities, alloc) :
            p[1] < q[1] \/ (p[1] = q[1] /\ p[2] <= q[2])

\* C1: run() returns a list and lets no exception escape; also a failure
\* raised by a calculation method is caught, and the component is Ready
\* afterwards.
C1_RunNeverRaises ==
    last.op = "run" => (~last.raised /\ pc = "ready")

\* output fields with a calculation binding and a configured allocation
WiredOutputs ==
    {name \in OutputNames :
        /\ \E k \in 1..Len(OutputDataSchema) :
              OutputDataSchema[k].name = name /\ OutputDataSchema[k].calculation # "None"
        /\ io_model.output[name] # NoAllocation}
\* the wired output fields for which the list holds an instruction
Instructed(components) ==
    {name \in WiredOutputs :
        \E i \in 1..Len(components) :
            /\ components[i].entity_id = io_model.output[name].entity
            /\ components[i].attribute_id = io_model.output[name].attribute}
\* some input field has no allocation or its allocation matches nothing in
\* the snapshot
StagingFails(data) ==
    \E name \in InputNames :
        \/ io_model.input[name] = NoAllocation
        \/ Matches(data.input_entities \o data.static_entities,
                   io_model.input[name]) = {}

\* C2: run() is all-or-nothing: when an input allocation cannot be resolved
\* or the input validation fails, run() returns the empty list and no
\* calculation method has been invoked; a returned list never holds
\* instructions for some but not all of the wired output fields.
C2_RunAllOrNothing ==
    last.op = "run" =>
        /\ StagingFails(last.data) =>
              (~last.raised /\ last.components = << >> /\ last.invoked = << >>)
        /\ ~last.raised =>
              /\ Instructed(last.components) \in {{}, WiredOutputs}
              /\ Len(last.components) \in {0, Cardinality(WiredOutputs)}

C2_Witness ==
    /\ last.op = "run"
    /\ io_model.input["optional_input"] # NoAllocation
    /\ StagingFails(last.data)
    /\ WiredOutputs = CalculatedNames
    /\ last.components = << >>

\* C3: get_component_input returns exactly the (data, unit, timestamp) of an
\* attribute with the allocation's attribute id in an entity with the
\* allocation's entity id; when there is none it raises a KeyError that names
\* both ids and returns no datapoint.
C3_LookupExact ==
    lookup.done =>
        LET m == Matches(lookup.entities, lookup.alloc)
        IN IF m = {}
           THEN /\ ~lookup.result.ok
                /\ lookup.result.err.kind = "KeyError"
                /\ lookup.result.err.a = lookup.alloc.entity
                /\ lookup.result.err.b = lookup.alloc.attribute
                /\ lookup.result.dp = NoDatapoint
           ELSE /\ lookup.result.ok
                /\ \E p \in m :
                      LET at == AttributeOf(lookup.entities, p)
                      IN lookup.result.dp =
                            DataPointModel(at.data, at.unit, at.latest_timestamp_input)
                /\ Cardinality(m) = 1 =>
                      LET at == AttributeOf(lookup.entities, CHOOSE p \in m : TRUE)
                      IN lookup.result.dp =
                            DataPointModel(at.data, at.unit, at.latest_timestamp_input)

C3_Witness ==
    /\ lookup.done
    /\ lookup.result.ok
    /\ Matches(lookup.entities, lookup.alloc) = {<< 2, 2 >>}

\* a required field without schema default that the configuration does not
\* supply (config = None or the key is missing)
Unsupplied(field) ==
    /\ field.required
    /\ field.default = NoneVal
    /\ \/ ~component_config.config.present
       \/ component_config.config.root[field.name].kind = "absent"

\* C4: construction fails with ComponentValidationError naming the field and
\* the component id whenever a required Config-data field without default is
\* supplied neither as literal nor as allocation, also when the config map is
\* omitted altogether.
C4_RequiredFieldFailsConstruction ==
    (pc # "new" /\ config_model.present) =>
        \A k \in 1..Len(config_model.fields) :
            Unsupplied(config_model.fields[k]) =>
                /\ pc = "failed"
                /\ ctor.err = ComponentValidationError(config_model.fields[k].name,
                                                       component_config.id)

\* C5: config resolution with an Allocation entry and static_data = None is
\* fatal: construction fails with an error.
C5_AllocationWithoutStaticDataIsFatal ==
    (/\ pc # "new"
     /\ ~ctor.static_given
     /\ component_config.config.present
     /\ HasAllocation(component_config.config))
        => (pc = "failed" /\ ctor.err # NoError)

\* the datapoint a config entry resolves to, before the unit step
Resolvable(entry, static_arg) ==
    \/ entry.kind = "literal"
    \/ /\ entry.kind = "allocation"
       /\ static_arg.given
       /\ Matches(static_arg.entities, entry.alloc) # {}
Resolved(entry, static_arg) ==
    IF entry.kind = "literal" THEN entry.dp
    ELSE LET at == AttributeOf(static_arg.entities,
                               FirstMatch(static_arg.entities, entry.alloc))
         IN DataPointModel(at.data, at.unit, at.latest_timestamp_input)
\* set_component_config_data reaches its loop over the schema fields
Attempted(static_config, static_arg) ==
    /\ static_config.present
    /\ config_model.present
    /\ static_arg.given \/ ~HasAllocation(static_config)
\* the fields before the k-th resolve
PriorFieldsResolve(static_config, static_arg, k) ==
    \A j \in 1..(k - 1) :
        ResolveConfigField(component_config.id, static_arg, static_config,
                           config_model.fields[j]).ok

C6_Step ==
    (/\ last'.op \in {"construct", "calibrate"}
     /\ last'.op = "calibrate" => last'.static_arg.given
     /\ Attempted(component_config.config, last'.static_arg))
    => \A k \in 1..Len(config_model.fields) :
          LET field == config_model.fields[k]
              entry == component_config.config.root[field.name]
              dp == Resolved(entry, last'.static_arg)
              factor == get_unit_adjustment_factor(dp.unit, field.unit)
              stored == static_data'.root[field.name]
          IN (/\ field.unit # NoneUnit
              /\ Resolvable(entry, last'.static_arg)
              /\ PriorFieldsResolve(component_config.config, last'.static_arg, k))
             => /\ (dp.unit = field.unit /\ ~last'.raised) =>
                      (stored.value = dp.value /\ stored.unit = field.unit)
                /\ (dp.unit \notin {field.unit, NoneUnit}
                      /\ IsNumeric(dp.value) /\ factor.defined /\ ~last'.raised) =>
                      /\ stored.value = Num((dp.value.n * factor.num) \div factor.den)
                      /\ stored.unit = field.unit
                /\ (dp.unit \notin {field.unit, NoneUnit}
                      /\ (~IsNumeric(dp.value) \/ ~factor.defined)) =>
                      /\ last'.raised
                      /\ last'.err = ComponentValidationError(field.name,
                                                              component_config.id)
                      /\ static_data' = static_data

C7_CalibrateOrderAndReraise ==
    (last.op = "calibrate" /\ last.static_arg.given) =>
        LET r == set_component_config_data(component_config.id, config_model,
                                           last.static_arg, component_config.config)
        IN IF r.status = "raised"
           THEN /\ last.raised
                /\ last.err = r.err
                /\ last.calls = <<"set_component_config_data">>
           ELSE /\ ~last.raised
                /\ last.calls = <<"set_component_config_data", "prepare_component">>

C7_Witness ==
    /\ last.op = "calibrate"
    /\ last.static_arg.given
    /\ last.raised
    /\ last.err.kind = "ComponentValidationError"
    /\ last.calls = <<"set_component_config_data">>

\* C8: a component that is Ready holds a resolved datapoint for every field of
\* its Config-data schema.
C8_ReadyImpliesConfigResolved ==
    (pc = "ready" /\ config_model.present) => static_data.set

C9_Step ==
    /\ component_config' = component_config
    /\ (/\ last'.op \in {"construct", "calibrate"}
        /\ last'.static_arg.given
        /\ static_data.set
        /\ last'.static_arg = static_src)
       => (~last'.raised /\ static_data' = static_data)

\* C9: config resolution is deterministic and idempotent: resolving again with
\* the same configuration and the same static data yields the same config data
\* (a unit conversion is not applied a second time), and a resolution does not
\* modify the component configuration.
C9_ResolutionIdempotent == [][C9_Step]_vars

C9_Witness ==
    /\ last.op = "calibrate"
    /\ last.repeat
    /\ ~last.raised
    /\ component_config.config.present
    /\ component_config.config.root["a_config_value"].kind = "allocation"
    /\ config_model.present
    /\ config_model.fields[1].unit = "WHR"
    /\ static_data.set
    /\ static_data.root["a_config_value"] = DataPointModel(Num(1000000), "WHR", 0)

\* C10: after set_input_values every field of the Input schema is staged with
\* value = the snapshot attribute's data, or the allocation's default if the
\* data is None, and unit = the attribute's unit, or the allocation's unit if
\* it is None; the value is never converted.  The allocation is looked up in
\* the cycle's input entities first and in the static entities after them.
C10_InputStaging ==
    (last.op = "run" /\ last.staged.ok) =>
        \A name \in InputNames :
            LET alloc == io_model.input[name]
                from == IF Matches(last.data.input_entities, alloc) # {}
                        THEN last.data.input_entities
                        ELSE last.data.static_entities
                at == AttributeOf(from, FirstMatch(from, alloc))
            IN /\ input_values.set
               /\ input_values.root[name].value =
                     IF at.data # NoneVal THEN at.data ELSE alloc.default
               /\ input_values.root[name].unit =
                     IF at.unit # NoneUnit THEN at.unit ELSE alloc.unit
               /\ input_values.root[name].time = at.latest_timestamp_input

C10_Witness ==
    /\ last.op = "run"
    /\ last.staged.ok
    /\ io_model.input["current_value"].unit = "KWH"
    /\ input_values.set
    /\ input_values.root["current_value"].value = Num(1000)
    /\ input_values.root["current_value"].unit = "WHR"
    /\ \E i \in 1..Len(last.data.input_entities) :
          /\ last.data.input_entities[i].id = "e1"
          /\ last.data.input_entities[i].attributes[1].data = NoneVal

\* what the calculation method of an output field returned in the last run
ReturnedBy(name) ==
    LET calls == {i \in 1..Len(last.invoked) : last.invoked[i] = name}
    IN IF Cardinality(calls) = 1 THEN last.returned[CHOOSE i \in calls : TRUE]
       ELSE Raises
\* the instructions of the wired output fields from the k-th schema field on,
\* in schema order
RECURSIVE ExpectedInstructions(_)
ExpectedInstructions(k) ==
    IF k > Len(OutputDataSchema) THEN << >>
    ELSE LET name == OutputDataSchema[k].name
         IN IF name \in WiredOutputs
            THEN << DataTransferComponentModel(io_model.output[name].entity,
                                               io_model.output[name].attribute,
                                               ReturnedBy(name).value,
                                               ReturnedBy(name).unit) >>
                 \o ExpectedInstructions(k + 1)
            ELSE ExpectedInstructions(k + 1)

\* C11: a successful run() returns exactly one instruction for each output
\* field with a calculation binding and a configured allocation, in schema
\* order, with the allocation's entity and attribute and the (value, unit) the
\* bound method returned; a field without calculation binding never appears.
C11_RunContent ==
    (last.op = "run" /\ last.staged.ok /\ ~last.raised) =>
        /\ last.components = ExpectedInstructions(1)
        /\ \A name \in WiredOutputs : ~ReturnedBy(name).raises

C11_Witness ==
    /\ last.op = "run"
    /\ ~last.raised
    /\ io_model.output["a_result"] # NoAllocation
    /\ last.components =
          << DataTransferComponentModel("out", "control", Num(1000), NoneUnit),
             DataTransferComponentModel("out", "b", StrVal, "CEL") >>

\* every input field has an allocation that names an attribute of the snapshot
AllAllocationsResolve(data) ==
    \A name \in InputNames :
        /\ io_model.input[name] # NoAllocation
        /\ Matches(data.input_entities \o data.static_entities,
                   io_model.input[name]) # {}

C12_Step ==
    /\ (last'.op = "run" /\ ~last'.staged.ok) =>
          /\ ~last'.raised /\ last'.components = << >>
          /\ pc' = "ready"
          /\ io_model' = io_model
          /\ static_data' = static_data
          /\ config_data' = config_data
          /\ component_config' = component_config
    /\ (last.op = "run" /\ ~last.staged.ok /\ last'.op = "run"
          /\ AllAllocationsResolve(last'.data)) =>
          /\ last'.staged.ok
          /\ ~last'.raised => last'.components = ExpectedInstructions(1)'

C15_ControlLawHoldsInBand ==
    law.done =>
        law.result =
            IF law.current_value < law.setpoint - law.hysteresis THEN CommandEnabled
            ELSE IF law.current_value > law.setpoint THEN CommandDisabled
            ELSE law.latest_control_signal

C14_LookupUnique ==
    lookup.done =>
        (lookup.result.ok <=> Cardinality(Matches(lookup.entities, lookup.alloc)) = 1)

\* KeyError and IndexError are the LookupError family
LookupErrors == {"KeyError", "IndexError", "LookupError"}

\* C17: for a component type t the engine looks the Input, Output and
\* Config-data schema up as the classes PascalCase(t) + "InputData",
\* "OutputData" and "ConfigData" of the module t_config in namespace t, the
\* classes the config module of the component defines.
C17_SchemaClassNames ==
    LET t == loader.component_type
    IN (loader.done /\ loader.op \in {"input", "output"}) =>
          /\ loader.result.module_path = ComponentModule(t) \o "_config"
          /\ loader.result.model_name =
                JoinCapitalized(t) \o (IF loader.op = "input" THEN "InputData"
                                       ELSE "OutputData")
          /\ JoinCapitalized(t) \o ConfigDataSubname = JoinCapitalized(t) \o "ConfigData"

\* C18: get_component_class_model returns a class that extends BasicComponent
\* or fails with a LookupError, both when no module or class is registered for
\* the type and when the class does not extend BasicComponent, and with no
\* other error kind.
C18_ClassOrLookupError ==
    (loader.done /\ loader.op = "class") =>
        \/ /\ loader.result.kind = "class"
           /\ IsSubclass(loader.result.class_model, "BasicComponent")
        \/ /\ loader.result.kind = "raised"
           /\ loader.result.err.kind \in LookupErrors

\* C19: a missing Input or Output schema makes the lookup fail with
\* LookupError; a missing static-data schema, the class or the whole config
\* module missing, is reported by returning None and never by raising.
C19_MissingSchema ==
    LET t == loader.component_type
        module == ComponentModule(t) \o "_config"
        Defined(name) == \E c \in loader.registry.classes :
                            c.module = module /\ c.name = JoinCapitalized(t) \o name
    IN loader.done =>
          /\ (loader.op = "input" /\ ~Defined("InputModel")) =>
                (loader.result.kind = "raised" /\ loader.result.err.kind \in LookupErrors)
          /\ (loader.op = "output" /\ ~Defined("OutputModel")) =>
                (loader.result.kind = "raised" /\ loader.result.err.kind \in LookupErrors)
          /\ (loader.op = "static" /\ ~Defined("StaticData")) =>
                loader.result.kind = "none"

\* C20: a thermal storage whose one sensor holds the whole volume and has the
\* limits [min, max] has a state of charge of 100 percent when the sensor
\* reads max, of 0 when it reads min and of 50 when it reads (min + max) / 2,
\* and get_energy_content of that state of charge is the state of charge
\* divided by 100 times the nominal energy content (to 0.01 Wh).
C20_StateOfCharge ==
    LET min == storage.temperature_limits.minimal_temperature
        max == storage.temperature_limits.maximal_temperature
    IN storage.done =>
          /\ storage.sensor_values = max => storage.state_of_charge = 10000
          /\ storage.sensor_values = min => storage.state_of_charge = 0
          /\ 2 * storage.sensor_values = min + max => storage.state_of_charge = 5000
          /\ storage.state_of_charge = 10000 =>
                storage.energy_content = storage.nominal_energy_content
          /\ storage.state_of_charge = 0 => storage.energy_content = 0
          /\ storage.state_of_charge = 5000 =>
                2 * storage.energy_content \in
                    (storage.nominal_energy_content - 1)
                        .. (storage.nominal_energy_content + 1)

\* C21: publish hands the MQTT client the JSON text of a dict, list or
\* DataFrame payload and str(payload) of a str, float, int or bool payload;
\* only None and a payload of another type are sent as None.
C21_PublishConverts ==
    \A i \in 1..Len(mqtt.published) :
        LET value == mqtt.published[i].value
            payload == mqtt.published[i].message.payload
        IN /\ value.kind \in {"dict", "list", "DataFrame"} =>
                payload = Prepared("json", value)
           /\ value.kind \in {"str", "float", "int", "bool"} =>
                payload = Prepared("str", value)
           /\ value.kind \in {"None", "datetime"} => payload.kind = "None"

\* C25: after on_message has handled a JSON object received on the topic of
\* an entity, every store entry of that entity whose last topic segment is a
\* key of the object holds the key's value and the reception time, and every
\* other entry (but the one of the topic itself) is as it was; a message on a
\* topic that is not in the store changes nothing.
C25_EntityMessage ==
    LET net == mqtt.net
    IN (net.handled /\ net.pc = "idle") =>
          /\ net.topic \notin DOMAIN mqtt.store => mqtt.store = net.before
          /\ (/\ net.topic \in DOMAIN mqtt.store
              /\ mqtt.store[net.topic].attribute_id = "None"
              /\ net.payload.kind = "object") =>
                \A topic \in DOMAIN mqtt.store \ {net.topic} :
                    IF /\ mqtt.store[topic].entity_id = mqtt.store[net.topic].entity_id
                       /\ Subtopic(topic) \in PayloadKeys
                       /\ net.payload.fields[Subtopic(topic)] >= 0
                    THEN /\ mqtt.store[topic].payload =
                              MqttPayload("float", net.payload.fields[Subtopic(topic)],
                                          NoFields)
                         /\ mqtt.store[topic].timestamp = net.current_time
                    ELSE mqtt.store[topic] = net.before[topic]

\* C27: every attribute get_data_from_mqtt returns has data_available
\* exactly if its data is not None.
C27_AvailableIffData ==
    \A i \in 1..Len(mqtt.svc.result) :
        mqtt.svc.result[i].data_available <=> mqtt.svc.result[i].data # NoneVal

\* C30: every attribute get_data_from_mqtt returns carries the payload and
\* the timestamp of one message (or of the initial store entry).
C30_PairFromOneMessage ==
    \A i \in 1..Len(mqtt.svc.result) :
        LET attribute == mqtt.svc.result[i]
            topic == assemble_topic_parts(<< TopicPrefix, mqtt.svc.entity.id,
                                             attribute.id >>)
        IN topic \in DOMAIN mqtt.store =>
              << topic, attribute.payload, attribute.latest_timestamp_input >>
                  \in mqtt.pairs

\* C22: calculate_state_of_charge returns a value between 0 and 100 percent
\* for every sensor temperature, below the minimal and above the maximal
\* temperature included.
C22_StateOfChargeInRange ==
    storage.done => storage.state_of_charge \in 0..10000

\* the sum of the elements of a sequence of numbers
RECURSIVE SumSeq(_)
SumSeq(seq) == IF seq = << >> THEN 0 ELSE Head(seq) + SumSeq(Tail(seq))

\* C23: set_temperature_values stores for every sensor with a name the
\* temperature the values hold under that name, and None for a fourth or
\* fifth sensor without a name.
C23_ValuesBySensorName ==
    storage.temperature_sensor_values # << >> =>
        \A i \in 1..5 :
            storage.temperature_sensor_values[i] =
                IF storage.sensor_names[i] # "None"
                THEN storage.temperature_values[storage.sensor_names[i]]
                ELSE -1

\* C24: for sensor heights in ascending order the slice of each sensor
\* reaches from the middle between its height and the height below (0 for
\* the first sensor) to the middle between its height and the height above
\* (100 for the last); no slice is negative and the slices add up to the
\* volume of the storage.  Slices are counted in 1/200 of the volume unit.
C24_VolumePartition ==
    LET heights == storage.sensor_heights
        n == Len(heights)
        Lower(i) == IF i = 1 THEN 0 ELSE heights[i - 1] + heights[i]
        Upper(i) == IF i = n THEN 200 ELSE heights[i] + heights[i + 1]
    IN storage.sensor_volumes # << >> =>
          /\ Len(storage.sensor_volumes) = n
          /\ \A i \in 1..n :
                /\ storage.sensor_volumes[i] = (Upper(i) - Lower(i)) * storage.volume
                /\ storage.sensor_volumes[i] >= 0
          /\ SumSeq(storage.sensor_volumes) = 200 * storage.volume

\* a storage with more than one sensor whose slices have been calculated
C24_Witness ==
    /\ Len(storage.sensor_volumes) = MaxSensors
    /\ \E i \in 1..MaxSensors : storage.sensor_volumes[i] = 0
    /\ \E i \in 1..MaxSensors : storage.sensor_volumes[i] > 0
    /\ storage.volume % 10 # 0

C26_Step ==
    /\ (service.pc = "_hold_sampling_time" /\ service'.pc # "_hold_sampling_time") =>
          /\ service.calls = << "get_data", "calculation", "prepare_output",
                                "send_outputs", "_set_health_timestamp" >>
          /\ service.elapsed >= service.hold_time
          /\ service.waited >= service.hold_time => service.slept = 0
          /\ service'.pc = "get_data"
          /\ service'.elapsed = 0
    /\ (service.pc = "_hold_sampling_time" /\ service'.pc = "_hold_sampling_time") =>
          service.elapsed < service.hold_time
    /\ service'.pc = "get_data" => service.pc = "_hold_sampling_time"

\* C26: a cycle of start_service calls get_data, calculation,
\* prepare_output, send_outputs and the update of the health timestamp in
\* this order; the next cycle starts only when the sampling time has elapsed
\* since the start of the cycle, without a sleep when the calls took the
\* sampling time or longer; and a completed cycle is followed by the start of
\* the next.
C26_ServiceLoop == [][C26_Step]_vars

\* a cycle that had to sleep has completed and the next has started
C26_Witness ==
    /\ service.pc = "calculation"
    /\ service.hold_time = MaxHold
    /\ service.finished > 0

\* C28: an optional input field without an allocation does not block the
\* component: a run() whose other input fields resolve in the snapshot stages
\* them and returns the instructions of all wired output fields.
C28_OptionalInputUnallocated ==
    (/\ last.op = "run"
     /\ io_model # NoIOModel
     /\ \E k \in 1..Len(InputDataSchema) :
           /\ ~InputDataSchema[k].required
           /\ io_model.input[InputDataSchema[k].name] = NoAllocation
     /\ \A name \in InputNames :
           io_model.input[name] # NoAllocation =>
               Matches(last.data.input_entities \o last.data.static_entities,
                       io_model.input[name]) # {}) =>
        /\ last.staged.ok
        /\ ~last.raised => last.components = ExpectedInstructions(1)

C29_Step ==
    /\ (last'.op = "calibrate" /\ (last'.raised \/ ~last'.static_arg.given)) =>
          /\ static_data' = static_data
          /\ component_config' = component_config
    /\ (last'.op = "calibrate" /\ ~last'.static_arg.given) =>
          /\ ~last'.raised
          /\ last'.calls = << >>

\* C29: a calibrate() whose config resolution fails leaves the resolved
\* config data and the configuration exactly as they were, and
\* calibrate(None) changes neither and invokes neither the resolution nor
\* the prepare_component hook.
C29_ConfigReplacedAtomically == [][C29_Step]_vars

\* a component with resolved config data whose calibrate() has failed
C29_Witness ==
    /\ last.op = "calibrate"
    /\ last.raised
    /\ static_data.set
    /\ static_src.given
    /\ last.static_arg # static_src

====
